---- MODULE Spec2Model ----
(***************************************************************************)
(* Model of the iteration-management core of scrapy-ntk:                   *)
(*   utils/counter.py       Threshold, Counter, CounterWithThreshold       *)
(*   utils/iter_manager.py  ExcludeCheck, Context, IterManager             *)
(*                                                                         *)
(* Two families of behaviours are specified over one set of variables:     *)
(*   CounterSpec  a Threshold is built from an argument, a                  *)
(*                CounterWithThreshold is built from it and its public     *)
(*                operations are called in any order;                      *)
(*   Spec / DescSpec / TwoPassSpec                                         *)
(*                an IterManager is built and its generator(s) are pulled. *)
(***************************************************************************)
EXTENDS Integers, Sequences, FiniteSets, TLC

\* ------------------------------------------------------------- bounds ----
\* largest integer handed to Threshold(...)
MaxThr == 3
\* smallest integer handed to Threshold(...) is -MaxNeg
MaxNeg == 2
\* add() is not called any more once the running count, or the number of
\* add() calls since the last drop(), reached MaxCount
MaxCount == 5

\* ------------------------------------------------------ Python values ----
\* A Python object as far as the modelled code looks at it: its type and,
\* for int and bool, its numeric value.
None == [t |-> "NoneType", v |-> 0]
PyInt(n) == [t |-> "int", v |-> n]
PyBool(b) == [t |-> "bool", v |-> IF b THEN 1 ELSE 0]
PyStr == [t |-> "str", v |-> 0]

\* isinstance(x, int): bool is a subclass of int
IsInstanceInt(x) == x.t \in {"int", "bool"}

\* `x is 0`: identity with the cached small integer 0; False is another object
IsZeroObject(x) == x.t = "int" /\ x.v = 0

\* -------------------------------------------------- StronglyTypedFunc ----
\* The types a StronglyTypedFunc is declared with; NoType is the declared
\* type None
PyTypes == {"int", "bool", "str", "NoneType", "object"}
NoType == "None"

\* isinstance(x, T)
IsInstance(x, T) ==
    CASE T = "object" -> TRUE
      [] T = "int" -> IsInstanceInt(x)
      [] OTHER -> x.t = T

\* StronglyTypedFunc._is_wrong_type
IsWrongType(value, expected) ==
    expected # NoType /\ ~IsInstance(value, expected)

\* StronglyTypedFunc.__init__: the wrapped function is given by the value
\* it returns for each input
StronglyTypedFunc(function, input_type, output_type) ==
    [function |-> function, input_type |-> input_type,
     output_type |-> output_type]

\* StronglyTypedFunc.call without the check of the input (a faulty variant)
CallInputUnchecked(f, input_value) ==
    IF IsWrongType(f.function[input_value], f.output_type)
    THEN [raised |-> TRUE, invoked |-> TRUE, value |-> None]
    ELSE [raised |-> FALSE, invoked |-> TRUE,
          value |-> f.function[input_value]]

\* StronglyTypedFunc.call: raised (TypeError), whether the wrapped function
\* was invoked, and the returned value (None stands in when it raised)
Call(f, input_value) ==
    IF IsWrongType(input_value, f.input_type)
    THEN [raised |-> TRUE, invoked |-> FALSE, value |-> None]
    ELSE IF IsWrongType(f.function[input_value], f.output_type)
         THEN [raised |-> TRUE, invoked |-> TRUE, value |-> None]
         ELSE [raised |-> FALSE, invoked |-> TRUE,
               value |-> f.function[input_value]]

\* ---------------------------------------------------------- Threshold ----
\* Threshold.__init__ without the `val <= 0` test (a faulty variant)
ThresholdUnchecked(val) ==
    IF val = None \/ IsZeroObject(val)
    THEN [raised |-> FALSE, _value |-> 0]
    ELSE IF IsInstanceInt(val)
         THEN [raised |-> FALSE, _value |-> val.v]
         ELSE [raised |-> TRUE, _value |-> 0]

\* Threshold.__init__: the constructed object, or raised = TRUE (TypeError)
Threshold(val) ==
    IF val = None \/ IsZeroObject(val)
    THEN [raised |-> FALSE, _value |-> 0]
    ELSE IF IsInstanceInt(val)
         THEN IF val.v <= 0
              THEN [raised |-> TRUE, _value |-> 0]
              ELSE [raised |-> FALSE, _value |-> val.v]
         ELSE [raised |-> TRUE, _value |-> 0]

\* Threshold.__bool__
ThresholdBool(th) == th._value # 0

\* Threshold.value: None for the disabled threshold
ThresholdValue(th) == IF ~ThresholdBool(th) THEN None ELSE PyInt(th._value)

\* Threshold.__int__: raises TypeError when the threshold is falsy
ThresholdInt(th) ==
    IF ~ThresholdBool(th)
    THEN [raised |-> TRUE, int |-> 0]
    ELSE [raised |-> FALSE, int |-> th._value]

\* ------------------------------------------------------------ Counter ----
\* Counter.__init__
CounterInit == [_is_enabled |-> TRUE, _count |-> 0]

\* CounterWithThreshold.__init__ without the `if not threshold` branch (a
\* faulty variant)
CounterWithThresholdEnabled(th) ==
    [_is_enabled |-> CounterInit._is_enabled,
     _count |-> CounterInit._count, _threshold |-> th]

\* CounterWithThreshold.__init__
CounterWithThreshold(th) ==
    IF ~ThresholdBool(th)
    THEN [_is_enabled |-> FALSE, _count |-> -1, _threshold |-> th]
    ELSE [_is_enabled |-> CounterInit._is_enabled,
          _count |-> CounterInit._count, _threshold |-> th]

\* CounterWithThreshold.__bool__ comparing with > (a faulty variant)
CounterBoolStrict(c) ==
    IF c._is_enabled
    THEN IF ThresholdInt(c._threshold).raised THEN "TypeError"
         ELSE IF c._count > ThresholdInt(c._threshold).int
              THEN "True" ELSE "False"
    ELSE "True"

\* CounterWithThreshold.__bool__: "True", "False" or "TypeError"
CounterBool(c) ==
    IF c._is_enabled
    THEN IF ThresholdInt(c._threshold).raised THEN "TypeError"
         ELSE IF c._count >= ThresholdInt(c._threshold).int
              THEN "True" ELSE "False"
    ELSE "True"

\* Counter.add counting also when disabled (a faulty variant)
CounterAddCountsDisabled(c) ==
    LET c1 == [c EXCEPT !._count = c._count + 1]
    IN  IF c._is_enabled
        THEN [c |-> c1, ret |-> CounterBool(c1)]
        ELSE [c |-> c1, ret |-> "False"]

\* Counter.add: the counter afterwards and what the call returned
\* ("True", "False", or "TypeError" when bool(self) raised)
CounterAdd(c) ==
    IF c._is_enabled
    THEN LET c1 == [c EXCEPT !._count = c._count + 1]
         IN  [c |-> c1, ret |-> CounterBool(c1)]
    ELSE [c |-> c, ret |-> "False"]

\* Counter.drop that resets nothing (a faulty variant)
CounterDropKeeps(c) == c

\* Counter.drop
CounterDrop(c) ==
    IF c._is_enabled THEN [c EXCEPT !._count = 0] ELSE c

\* Counter.enable / Counter.disable
CounterEnable(c) == [c EXCEPT !._is_enabled = TRUE]
CounterDisable(c) == [c EXCEPT !._is_enabled = FALSE]

\* Counter.count
CounterCount(c) == c._count

\* ------------------------------------------------------- ExcludeCheck ----
\* ExcludeCheck._yield_next: pull the next exclude value, or fall back to
\* the default and mark the cursor completed
YieldNext(ec) ==
    IF ec._iterator = <<>>
    THEN [ec EXCEPT !._value = ec._default, !._is_completed = TRUE]
    ELSE [ec EXCEPT !._value = PyInt(Head(ec._iterator)),
                    !._iterator = Tail(ec._iterator)]

\* ExcludeCheck.__init__
ExcludeCheck(iterator, default) ==
    YieldNext([_iterator |-> iterator, _default |-> default,
               _is_completed |-> FALSE, _value |-> None])

\* ExcludeCheck.check_next that never pulls the next exclude value (a
\* faulty variant)
CheckNextNoAdvance(ec, value) ==
    IF ec._is_completed THEN [ec |-> ec, ret |-> FALSE]
    ELSE IF value = ec._value THEN [ec |-> ec, ret |-> TRUE]
    ELSE [ec |-> ec, ret |-> FALSE]

\* ExcludeCheck.check_next without the test of _is_completed (a faulty
\* variant)
CheckNextWhenCompleted(ec, value) ==
    IF value = ec._value THEN [ec |-> YieldNext(ec), ret |-> TRUE]
    ELSE [ec |-> ec, ret |-> FALSE]

\* ExcludeCheck.check_next that looks for the value further along the
\* exclude iterator when it is not the pending one (a faulty variant)
CheckNextSkips(ec, value) ==
    LET later == {i \in DOMAIN ec._iterator : PyInt(ec._iterator[i]) = value}
        first == CHOOSE i \in later : \A j \in later : i <= j
    IN  IF ec._is_completed THEN [ec |-> ec, ret |-> FALSE]
        ELSE IF value = ec._value THEN [ec |-> YieldNext(ec), ret |-> TRUE]
        ELSE IF later # {}
        THEN [ec |-> YieldNext([ec EXCEPT !._iterator =
                         SubSeq(ec._iterator, first + 1,
                                Len(ec._iterator))]),
              ret |-> TRUE]
        ELSE [ec |-> ec, ret |-> FALSE]

\* ExcludeCheck.check_next: the cursor afterwards and the returned bool
CheckNext(ec, value) ==
    IF ec._is_completed THEN [ec |-> ec, ret |-> FALSE]
    ELSE IF value = ec._value THEN [ec |-> YieldNext(ec), ret |-> TRUE]
    ELSE [ec |-> ec, ret |-> FALSE]

\* ------------------------------------------------------------ Context ----
\* Context.__init__: _dict holds value and exclude_value; the close_reason
\* key is absent (modelled as the empty list) until a reason is set
Context(value, exclude_value) ==
    [value |-> value, exclude_value |-> exclude_value, close_reason |-> <<>>]

\* Context.close_reason: the last message, or None (some = FALSE)
ContextCloseReason(ctx) ==
    IF ctx.close_reason # <<>>
    THEN [some |-> TRUE, msg |-> ctx.close_reason[Len(ctx.close_reason)]]
    ELSE [some |-> FALSE, msg |-> ""]

\* truth value of Context.close_reason: None and "" are falsy
CloseReasonTruthy(ctx) ==
    ContextCloseReason(ctx).some /\ ContextCloseReason(ctx).msg # ""

\* Context.set_close_reason keeping only the last message (a faulty
\* variant)
SetCloseReasonReplaces(ctx, message) ==
    [ctx EXCEPT !.close_reason = <<message>>]

\* Context.set_close_reason (message is a str)
SetCloseReason(ctx, message) ==
    IF CloseReasonTruthy(ctx)
    THEN [ctx EXCEPT !.close_reason = Append(ctx.close_reason, message)]
    ELSE [ctx EXCEPT !.close_reason = <<message>>]

\* Context._lock_keys
LockKeys == {"close_reason", "value", "exclude_value"}

\* the value no key of _dict is mapped to: the key is absent
Absent == [t |-> "absent", v |-> 0]

\* Context.__setitem__ that locks nothing (a faulty variant)
SetItemUnlocked(ctx, fields, key, value) ==
    IF key \in DOMAIN fields
    THEN [raised |-> FALSE, ctx |-> ctx,
          fields |-> [fields EXCEPT ![key] = value]]
    ELSE [raised |-> FALSE, fields |-> fields,
          ctx |-> IF key = "close_reason" THEN ctx
                  ELSE [ctx EXCEPT ![key] = value]]

\* Context.__setitem__: raised (KeyError), the context and its entries
\* afterwards. fields holds the entries of _dict under the keys that are
\* not locked: a function from those keys to a value, or to Absent.
SetItem(ctx, fields, key, value) ==
    IF key \notin LockKeys
    THEN [raised |-> FALSE, ctx |-> ctx,
          fields |-> [fields EXCEPT ![key] = value]]
    ELSE [raised |-> TRUE, ctx |-> ctx, fields |-> fields]

\* Context.update writing every key straight into _dict (a faulty variant)
RECURSIVE UpdateUnlocked(_, _, _)
UpdateUnlocked(ctx, fields, dictionary) ==
    IF dictionary = <<>>
    THEN [raised |-> FALSE, ctx |-> ctx, fields |-> fields, done |-> 0]
    ELSE LET r == SetItemUnlocked(ctx, fields, Head(dictionary)[1],
                                  Head(dictionary)[2])
             rest == UpdateUnlocked(r.ctx, r.fields, Tail(dictionary))
         IN  [rest EXCEPT !.done = @ + 1]

\* Context.update: self[key] = val for the items of the dictionary, in
\* their order (a sequence of <<key, val>> pairs); the first KeyError leaves
\* the loop, what was assigned before it stays. done: how many assignments
\* were executed, the raising one included
RECURSIVE Update(_, _, _)
Update(ctx, fields, dictionary) ==
    IF dictionary = <<>>
    THEN [raised |-> FALSE, ctx |-> ctx, fields |-> fields, done |-> 0]
    ELSE LET r == SetItem(ctx, fields, Head(dictionary)[1],
                          Head(dictionary)[2])
             rest == Update(r.ctx, r.fields, Tail(dictionary))
         IN  IF r.raised
             THEN [raised |-> TRUE, ctx |-> r.ctx, fields |-> r.fields,
                   done |-> 1]
             ELSE [rest EXCEPT !.done = @ + 1]

\* Context.__getitem__: raised (KeyError) when the key is absent
GetItem(ctx, fields, key) ==
    IF key \in {"value", "exclude_value"}
    THEN [raised |-> FALSE, value |-> ctx[key]]
    ELSE IF key = "close_reason"
    THEN [raised |-> ctx.close_reason = <<>>, value |-> ctx.close_reason]
    ELSE [raised |-> fields[key] = Absent, value |-> fields[key]]

\* -------------------------------------------------------- IterManager ----
\* An element of the general iterator: its identity (the key the context
\* processor derives from it) and, for each configured case processor in
\* declared order, what that processor returns for it (cases) unless it
\* returns something that is not a bool (nonbool). wrong names the type
\* checks of the other stages that fail for it: "value" (the element is not
\* of value_type), "context" (the context processor does not return a
\* Context for it), "return" (the return value processor's result is not
\* of return_type).
NoElement == [key |-> 0, cases |-> <<>>, nonbool |-> <<>>, wrong |-> {}]
NoContext == Context(NoElement, None)

MsgExcludeMatches == "Exclude matches threshold reached."
MsgTotalExcluded == "Total excluded threshold reached."
MsgReturnedValues == "Returned values threshold reached."
MsgIterations == "Iterations count threshold reached."

\* IterManager.__init__ with valid max_* arguments; case_processors is the
\* number of configured case processors
\* (arguments: general_iterator, exclude_iterator, exclude_default,
\* max_iterations, max_exclude_matches, max_total_excluded,
\* max_returned_values, case_processors)
IterManager(gi, ei, ed, mi, mem, mte, mrv, cp) ==
    [_general_iterator |-> gi,
     _exclude_checker |-> ExcludeCheck(ei, ed),
     _total_iterations_counter |->
         CounterWithThreshold(Threshold(mi)),
     _exclude_matches_counter |->
         CounterWithThreshold(Threshold(mem)),
     _total_excluded_counter |->
         CounterWithThreshold(Threshold(mte)),
     _total_returned_counter |->
         CounterWithThreshold(Threshold(mrv)),
     _case_processors |-> cp]

\* the exclude key of an element: key 0 stands for the element None, whose
\* exclude key is None; every other key is an int
KeyValue(k) == IF k = 0 THEN None ELSE PyInt(k)

\* the context processor: the value and the exclude key derived from it
ContextProcessor(value) == Context(value, KeyValue(value.key))

\* self._context_processor.call(value) raises TypeError: _check_input or
\* _check_output fails
ContextProcessorRaises(value) == value.wrong \cap {"value", "context"} # {}

\* the return value processor: what is yielded for a context
ReturnValueProcessor(ctx) == ctx.value.key

\* self._return_value_processor.call(context) raises TypeError:
\* _check_output fails
ReturnValueProcessorRaises(ctx) == "return" \in ctx.value.wrong

\* IterManager._chain_case_processors raises TypeError: a case processor
\* is reached (none before it returned True) whose result is not a bool
ChainCaseProcessorsRaises(m, ctx) ==
    \E i \in 1..m._case_processors :
        /\ ctx.value.nonbool[i]
        /\ \A j \in 1..(i - 1) : ~ctx.value.cases[j]

\* IterManager._chain_case_processors ignoring the case processors (a
\* faulty variant)
ChainCaseProcessorsIgnored(m, ctx) == FALSE

\* IterManager._chain_case_processors: True iff some case processor
\* returns True for the context
ChainCaseProcessors(m, ctx) ==
    \E i \in 1..m._case_processors : ctx.value.cases[i]

\* IterManager._chain_case_processors calling every case processor, also
\* after one returned True (a faulty variant)
CaseProcessorsCalledAll(m, ctx) == [i \in 1..m._case_processors |-> i]

\* IterManager._chain_case_processors: the case processors it calls for the
\* context, in the order of the calls: the loop over self._case_processors
\* is left at the first one that returns True (or whose result fails the
\* type check)
CaseProcessorsCalled(m, ctx) ==
    LET n == m._case_processors
        stops == {i \in 1..n : ctx.value.cases[i] \/ ctx.value.nonbool[i]}
        last == IF stops = {} THEN n
                ELSE CHOOSE i \in stops : \A j \in stops : i <= j
    IN  [i \in 1..last |-> i]

\* IterManager._check_exclude without the drop() of the consecutive-match
\* counter (a faulty variant)
CheckExcludeNoDrop(m, ctx) ==
    LET r == CheckNext(m._exclude_checker, ctx.exclude_value)
        a1 == CounterAdd(m._exclude_matches_counter)
        ctx1 == IF a1.ret = "True"
                THEN SetCloseReason(ctx, MsgExcludeMatches) ELSE ctx
        a2 == CounterAdd(m._total_excluded_counter)
        ctx2 == IF a2.ret = "True"
                THEN SetCloseReason(ctx1, MsgTotalExcluded) ELSE ctx1
        m0 == [m EXCEPT !._exclude_checker = r.ec]
        m1 == [m0 EXCEPT !._exclude_matches_counter = a1.c]
        m2 == [m1 EXCEPT !._total_excluded_counter = a2.c]
    IN  IF r.ret
        THEN IF a1.ret = "TypeError"
             THEN [raised |-> TRUE, ret |-> FALSE, ctx |-> ctx, m |-> m1,
                   hit |-> {}]
             ELSE IF a2.ret = "TypeError"
             THEN [raised |-> TRUE, ret |-> FALSE, ctx |-> ctx1, m |-> m2,
                   hit |-> IF a1.ret = "True" THEN {"exclude_matches"} ELSE {}]
             ELSE [raised |-> FALSE, ret |-> FALSE, ctx |-> ctx2, m |-> m2,
                   hit |-> (IF a1.ret = "True" THEN {"exclude_matches"} ELSE {})
                           \cup
                           (IF a2.ret = "True" THEN {"total_excluded"} ELSE {})]
        ELSE [raised |-> FALSE, ret |-> TRUE, ctx |-> ctx, m |-> m0,
              hit |-> {}]

\* IterManager._check_exclude. ret: the value must be returned; hit: the
\* counters whose add() returned True; raised: an add() raised TypeError
CheckExclude(m, ctx) ==
    LET r == CheckNext(m._exclude_checker, ctx.exclude_value)
        a1 == CounterAdd(m._exclude_matches_counter)
        ctx1 == IF a1.ret = "True"
                THEN SetCloseReason(ctx, MsgExcludeMatches) ELSE ctx
        a2 == CounterAdd(m._total_excluded_counter)
        ctx2 == IF a2.ret = "True"
                THEN SetCloseReason(ctx1, MsgTotalExcluded) ELSE ctx1
        m0 == [m EXCEPT !._exclude_checker = r.ec]
        m1 == [m0 EXCEPT !._exclude_matches_counter = a1.c]
        m2 == [m1 EXCEPT !._total_excluded_counter = a2.c]
    IN  IF r.ret
        THEN IF a1.ret = "TypeError"
             THEN [raised |-> TRUE, ret |-> FALSE, ctx |-> ctx, m |-> m1,
                   hit |-> {}]
             ELSE IF a2.ret = "TypeError"
             THEN [raised |-> TRUE, ret |-> FALSE, ctx |-> ctx1, m |-> m2,
                   hit |-> IF a1.ret = "True" THEN {"exclude_matches"} ELSE {}]
             ELSE [raised |-> FALSE, ret |-> FALSE, ctx |-> ctx2, m |-> m2,
                   hit |-> (IF a1.ret = "True" THEN {"exclude_matches"} ELSE {})
                           \cup
                           (IF a2.ret = "True" THEN {"total_excluded"} ELSE {})]
        ELSE [raised |-> FALSE, ret |-> TRUE, ctx |-> ctx,
              m |-> [m0 EXCEPT !._exclude_matches_counter =
                                   CounterDrop(m._exclude_matches_counter)],
              hit |-> {}]

\* IterManager._return that does not count the returned value (a faulty
\* variant)
ReturnUncounted(m, ctx) ==
    [raised |-> FALSE, m |-> m, ctx |-> ctx,
     value |-> ReturnValueProcessor(ctx), hit |-> {}]

\* IterManager._return: count the returned value and compute it
Return(m, ctx) ==
    LET a == CounterAdd(m._total_returned_counter)
    IN  [raised |-> a.ret = "TypeError" \/ ReturnValueProcessorRaises(ctx),
         m |-> [m EXCEPT !._total_returned_counter = a.c],
         ctx |-> IF a.ret = "True"
                 THEN SetCloseReason(ctx, MsgReturnedValues) ELSE ctx,
         value |-> ReturnValueProcessor(ctx),
         hit |-> IF a.ret = "True" THEN {"total_returned"} ELSE {}]

\* the end of the loop body never leaving the loop (a faulty variant)
AfterElementNeverStops(m, ctx) ==
    LET a == CounterAdd(m._total_iterations_counter)
        ctx1 == IF a.ret = "True"
                THEN SetCloseReason(ctx, MsgIterations) ELSE ctx
    IN  [raised |-> a.ret = "TypeError",
         m |-> [m EXCEPT !._total_iterations_counter = a.c],
         ctx |-> ctx1,
         stop |-> FALSE,
         hit |-> IF a.ret = "True" THEN {"total_iterations"} ELSE {}]

\* the end of the loop body always leaving the loop (a faulty variant)
AfterElementAlwaysStops(m, ctx) ==
    LET a == CounterAdd(m._total_iterations_counter)
        ctx1 == IF a.ret = "True"
                THEN SetCloseReason(ctx, MsgIterations) ELSE ctx
    IN  [raised |-> a.ret = "TypeError",
         m |-> [m EXCEPT !._total_iterations_counter = a.c],
         ctx |-> ctx1,
         stop |-> TRUE,
         hit |-> IF a.ret = "True" THEN {"total_iterations"} ELSE {}]

\* the end of the loop body counting the iteration twice (a faulty
\* variant)
AfterElementCountsTwice(m, ctx) ==
    LET a == CounterAdd(CounterAdd(m._total_iterations_counter).c)
        ctx1 == IF a.ret = "True"
                THEN SetCloseReason(ctx, MsgIterations) ELSE ctx
    IN  [raised |-> a.ret = "TypeError",
         m |-> [m EXCEPT !._total_iterations_counter = a.c],
         ctx |-> ctx1,
         stop |-> CloseReasonTruthy(ctx1),
         hit |-> IF a.ret = "True" THEN {"total_iterations"} ELSE {}]

\* IterManager.__iter__, the end of the loop body: count the iteration and
\* decide whether the pass stops (before_finish is then called and the loop
\* is left)
AfterElement(m, ctx) ==
    LET a == CounterAdd(m._total_iterations_counter)
        ctx1 == IF a.ret = "True"
                THEN SetCloseReason(ctx, MsgIterations) ELSE ctx
    IN  [raised |-> a.ret = "TypeError",
         m |-> [m EXCEPT !._total_iterations_counter = a.c],
         ctx |-> ctx1,
         stop |-> CloseReasonTruthy(ctx1),
         hit |-> IF a.ret = "True" THEN {"total_iterations"} ELSE {}]

\* -------------------------------------------------------------- state ----
VARIABLES
    \* the IterManager object (self) and the passes over it
    manager,    \* the fields of the IterManager
    primary,    \* what the general iterator held at construction
    excluding,  \* what the exclude iterator held at construction
    npass,      \* how many times the consumer calls iter(manager)
    pc,         \* per pass: "none", "start", "loop", "yielded", "done", "raised"
    running,    \* the pass whose generator body is executing, or 0
    ctx,        \* per pass: the local variable `context`
    output,     \* per pass: the values yielded so far
    finished,   \* per pass: the contexts before_finish was called with
    reached,    \* per pass: the counters that reported reached on the
                \* element being processed
    taken,      \* per pass: how many elements it pulled from the general
                \* iterator
    invoked,    \* per pass: the stages called for the element being
                \* processed, in the order of the calls (i >= 1: the i-th
                \* case processor, 0: _check_exclude)
    \* a Threshold and a CounterWithThreshold used on their own
    cphase,     \* "off", "arg", "threshold", "raised", "counter"
    arg,        \* the argument of Threshold(...)
    threshold,  \* the Threshold
    counter,    \* the CounterWithThreshold
    ret,        \* what the last add() returned: "True", "False", "TypeError"
                \* ("none" when the last call was not an add)
    calls,      \* add() calls since construction or the last drop()
    toggled,    \* enable() or disable() has been called
    \* an ExcludeCheck, a Context and a StronglyTypedFunc used on their own
    unit,       \* "off", "exclude", "context", "func"
    checker,    \* the ExcludeCheck
    probe,      \* the last check_next call: its argument and what it
                \* returned (called = FALSE before the first call)
    context,    \* the Context
    fields,     \* the entries of context._dict under unlocked keys
    history,    \* the messages set_close_reason was called with, in order
    setitem,    \* the last context[key] = value: key, value and whether
                \* it raised (called = FALSE before the first one)
    func,       \* the StronglyTypedFunc
    outcome,    \* the last func.call(input): input and result (called =
                \* FALSE before the first call)
    \* an SHubFetcher and its fetch calls
    fetcher,    \* the SHubFetcher: its constructor arguments, whether the
                \* constructor raised, its maximum_* attributes and, per
                \* spider of self.settings, the exclude iterator
    jobs,       \* per spider: the finished jobs of the spider, newest first
    plan        \* per pass: the fetch call and the spider it belongs to

itvars == <<manager, primary, excluding, npass, pc, running, ctx, output, finished,
            reached, taken, invoked>>
cvars == <<cphase, arg, threshold, counter, ret, calls, toggled>>
uvars == <<unit, checker, probe, context, fields, history, setitem, func,
           outcome>>
fvars == <<fetcher, jobs, plan>>
vars == <<manager, primary, excluding, npass, pc, running, ctx, output, finished,
          reached, taken, invoked, fetcher, jobs, plan, cphase, arg, threshold, counter, ret, calls,
          toggled, unit, checker, probe, context, fields, history, setitem,
          func, outcome>>

Passes == 1..2

\* ----------------------------------------------- IterManager: actions ----
\* the state right after IterManager(...) was constructed
Constructed(general, exclude, default, mi, mem, mte, mrv, ncases, n) ==
    /\ manager = IterManager(general, exclude, default, mi, mem, mte, mrv,
                             ncases)
    /\ primary = general
    /\ excluding = exclude
    /\ npass = n
    /\ pc = [p \in Passes |-> "none"]
    /\ running = 0
    /\ ctx = [p \in Passes |-> NoContext]
    /\ output = [p \in Passes |-> <<>>]
    /\ finished = [p \in Passes |-> <<>>]
    /\ reached = [p \in Passes |-> {}]
    /\ taken = [p \in Passes |-> 0]
    /\ invoked = [p \in Passes |-> <<>>]

\* no Threshold / counter is exercised on its own
CounterOff ==
    /\ cphase = "off"
    /\ arg = None
    /\ threshold = Threshold(None)
    /\ counter = CounterWithThreshold(Threshold(None))
    /\ ret = "none"
    /\ calls = 0
    /\ toggled = FALSE

\* the auxiliary keys written to a Context
AuxKeys == {"note", "extra"}

\* no ExcludeCheck is exercised on its own
CheckerOff ==
    /\ checker = ExcludeCheck(<<>>, None)
    /\ probe = [called |-> FALSE, key |-> None, ret |-> FALSE]

\* no Context is exercised on its own
ContextOff ==
    /\ context = NoContext
    /\ fields = [k \in AuxKeys |-> Absent]
    /\ history = <<>>
    /\ setitem = [called |-> FALSE, key |-> "", value |-> None,
                  raised |-> FALSE]

\* no StronglyTypedFunc is exercised on its own
FuncOff ==
    /\ func = StronglyTypedFunc([x \in {None} |-> None], NoType, NoType)
    /\ outcome = [called |-> FALSE, input |-> None, raised |-> FALSE,
                  invoked |-> FALSE, value |-> None]

\* none of the three is exercised
UnitOff == unit = "off" /\ CheckerOff /\ ContextOff /\ FuncOff

\* the keyword arguments of SHubFetcher(...) when no fetcher is made
NoArguments ==
    [settings |-> <<>>, maximum_fetched_jobs |-> None,
     maximum_excluded_matches |-> None, maximum_returned_jobs |-> None,
     maximum_total_excluded |-> None]

\* no SHubFetcher is exercised
SHubFetcherOff ==
    /\ fetcher = [phase |-> "off", arguments |-> NoArguments,
                  maximum_fetched_jobs |-> None,
                  maximum_excluded_matches |-> None,
                  maximum_returned_jobs |-> None,
                  maximum_total_excluded |-> None, settings |-> <<>>]
    /\ jobs = <<>>
    /\ plan = [p \in Passes |-> [call |-> 0, spider |-> 0]]

\* iter(manager): a generator object is created, none of its body runs.
\* Passes are numbered in the order of the iter() calls.
IterCall(p) ==
    /\ running = 0
    /\ p <= npass
    /\ pc[p] = "none"
    /\ \A q \in Passes : q < p => pc[q] # "none"
    /\ pc' = [pc EXCEPT ![p] = "start"]
    /\ UNCHANGED <<manager, primary, excluding, npass, running, ctx, output, finished,
                   reached, taken,
                   invoked>>
    /\ UNCHANGED cvars
    /\ UNCHANGED uvars
    /\ UNCHANGED fvars

\* the consumer's first next() on a pass: the body runs up to the for loop
Start(p) ==
    /\ running = 0
    /\ pc[p] = "start"
    /\ pc' = [pc EXCEPT ![p] = "loop"]
    /\ running' = p
    /\ UNCHANGED <<manager, primary, excluding, npass, ctx, output, finished, reached,
                   taken,
                   invoked>>
    /\ UNCHANGED cvars
    /\ UNCHANGED uvars
    /\ UNCHANGED fvars

\* the consumer's next() on a pass suspended at the yield: the rest of the
\* loop body runs for the element that was yielded
Resume(p) ==
    /\ running = 0
    /\ pc[p] = "yielded"
    /\ LET t == AfterElement(manager, ctx[p])
       IN  /\ manager' = t.m
           /\ ctx' = [ctx EXCEPT ![p] = t.ctx]
           /\ reached' = [reached EXCEPT ![p] = reached[p] \cup t.hit]
           /\ finished' = IF ~t.raised /\ t.stop
                          THEN [finished EXCEPT ![p] = Append(@, t.ctx)]
                          ELSE finished
           /\ pc' = [pc EXCEPT ![p] = IF t.raised THEN "raised"
                                      ELSE IF t.stop THEN "done" ELSE "loop"]
           /\ running' = IF t.raised \/ t.stop THEN 0 ELSE p
    /\ UNCHANGED <<primary, excluding, npass, output, taken,
                   invoked>>
    /\ UNCHANGED cvars
    /\ UNCHANGED uvars
    /\ UNCHANGED fvars

\* the for loop finds the general iterator exhausted: the generator ends
StepExhausted(p) ==
    /\ running = p
    /\ pc[p] = "loop"
    /\ manager._general_iterator = <<>>
    /\ pc' = [pc EXCEPT ![p] = "done"]
    /\ running' = 0
    /\ UNCHANGED <<manager, primary, excluding, npass, ctx, output, finished, reached,
                   taken,
                   invoked>>
    /\ UNCHANGED cvars
    /\ UNCHANGED uvars
    /\ UNCHANGED fvars

\* the for loop pulling one value more than it processes (a faulty
\* variant)
PulledAhead(m) ==
    [m EXCEPT !._general_iterator =
        IF Len(m._general_iterator) > 1
        THEN Tail(Tail(m._general_iterator))
        ELSE Tail(m._general_iterator)]

\* the manager after the for loop pulled the next value
Pulled(m) == [m EXCEPT !._general_iterator = Tail(m._general_iterator)]

\* one element is pulled and a case processor returns True for it: continue
StepDropped(p) ==
    /\ running = p
    /\ pc[p] = "loop"
    /\ manager._general_iterator # <<>>
    /\ ~ContextProcessorRaises(Head(manager._general_iterator))
    /\ ~ChainCaseProcessorsRaises(manager,
           ContextProcessor(Head(manager._general_iterator)))
    /\ LET c == ContextProcessor(Head(manager._general_iterator))
       IN  /\ ChainCaseProcessors(manager, c)
           /\ manager' = Pulled(manager)
           /\ ctx' = [ctx EXCEPT ![p] = c]
           /\ invoked' = [invoked EXCEPT ![p] =
                             CaseProcessorsCalled(manager, c)]
    /\ reached' = [reached EXCEPT ![p] = {}]
    /\ taken' = [taken EXCEPT ![p] = @ + 1]
    /\ UNCHANGED <<primary, excluding, npass, pc, running, output, finished>>
    /\ UNCHANGED cvars
    /\ UNCHANGED uvars
    /\ UNCHANGED fvars

\* one element is pulled and excluded: nothing is yielded, the rest of the
\* loop body runs
StepExcluded(p) ==
    /\ running = p
    /\ pc[p] = "loop"
    /\ manager._general_iterator # <<>>
    /\ ~ContextProcessorRaises(Head(manager._general_iterator))
    /\ ~ChainCaseProcessorsRaises(manager,
           ContextProcessor(Head(manager._general_iterator)))
    /\ LET c == ContextProcessor(Head(manager._general_iterator))
           e == CheckExclude(Pulled(manager), c)
           t == AfterElement(e.m, e.ctx)
           raised == e.raised \/ t.raised
           stop == ~raised /\ t.stop
       IN  /\ ~ChainCaseProcessors(manager, c)
           /\ e.raised \/ ~e.ret
           /\ invoked' = [invoked EXCEPT ![p] =
                             CaseProcessorsCalled(manager, c) \o <<0>>]
           /\ manager' = IF e.raised THEN e.m ELSE t.m
           /\ ctx' = [ctx EXCEPT ![p] = IF e.raised THEN e.ctx ELSE t.ctx]
           /\ reached' = [reached EXCEPT ![p] =
                             IF e.raised THEN e.hit ELSE e.hit \cup t.hit]
           /\ finished' = IF stop
                          THEN [finished EXCEPT ![p] = Append(@, t.ctx)]
                          ELSE finished
           /\ pc' = [pc EXCEPT ![p] = IF raised THEN "raised"
                                      ELSE IF stop THEN "done" ELSE "loop"]
           /\ running' = IF raised \/ stop THEN 0 ELSE p
    /\ taken' = [taken EXCEPT ![p] = @ + 1]
    /\ UNCHANGED <<primary, excluding, npass, output>>
    /\ UNCHANGED cvars
    /\ UNCHANGED uvars
    /\ UNCHANGED fvars

\* one element is pulled and not excluded: its value is yielded and the
\* generator is suspended at the yield
StepYield(p) ==
    /\ running = p
    /\ pc[p] = "loop"
    /\ manager._general_iterator # <<>>
    /\ ~ContextProcessorRaises(Head(manager._general_iterator))
    /\ ~ChainCaseProcessorsRaises(manager,
           ContextProcessor(Head(manager._general_iterator)))
    /\ LET c == ContextProcessor(Head(manager._general_iterator))
           e == CheckExclude(Pulled(manager), c)
           r == Return(e.m, e.ctx)
       IN  /\ ~ChainCaseProcessors(manager, c)
           /\ ~e.raised /\ e.ret
           /\ invoked' = [invoked EXCEPT ![p] =
                             CaseProcessorsCalled(manager, c) \o <<0>>]
           /\ manager' = r.m
           /\ ctx' = [ctx EXCEPT ![p] = r.ctx]
           /\ reached' = [reached EXCEPT ![p] = r.hit]
           /\ output' = IF r.raised THEN output
                        ELSE [output EXCEPT ![p] = Append(@, r.value)]
           /\ pc' = [pc EXCEPT ![p] = IF r.raised THEN "raised"
                                      ELSE "yielded"]
    /\ running' = 0
    /\ taken' = [taken EXCEPT ![p] = @ + 1]
    /\ UNCHANGED <<primary, excluding, npass, finished>>
    /\ UNCHANGED cvars
    /\ UNCHANGED uvars
    /\ UNCHANGED fvars

\* the exception is swallowed and the loop goes on (a faulty variant)
StepRaisedGoesOn(p) ==
    /\ running = p
    /\ pc[p] = "loop"
    /\ manager._general_iterator # <<>>
    /\ LET value == Head(manager._general_iterator)
       IN  \/ ContextProcessorRaises(value)
           \/ ChainCaseProcessorsRaises(manager, ContextProcessor(value))
    /\ manager' = Pulled(manager)
    /\ taken' = [taken EXCEPT ![p] = @ + 1]
    /\ UNCHANGED <<primary, excluding, npass, pc, running, ctx, output,
                   finished, reached, invoked>>
    /\ UNCHANGED cvars
    /\ UNCHANGED uvars
    /\ UNCHANGED fvars

\* one element is pulled and the context processor or a case processor
\* raises TypeError: the exception leaves the generator, which is finished
StepRaised(p) ==
    /\ running = p
    /\ pc[p] = "loop"
    /\ manager._general_iterator # <<>>
    /\ LET value == Head(manager._general_iterator)
       IN  /\ \/ ContextProcessorRaises(value)
              \/ ChainCaseProcessorsRaises(manager, ContextProcessor(value))
           /\ ctx' = IF ContextProcessorRaises(value) THEN ctx
                     ELSE [ctx EXCEPT ![p] = ContextProcessor(value)]
           /\ invoked' = [invoked EXCEPT ![p] =
                             IF ContextProcessorRaises(value) THEN <<>>
                             ELSE CaseProcessorsCalled(
                                      manager, ContextProcessor(value))]
    /\ manager' = Pulled(manager)
    /\ pc' = [pc EXCEPT ![p] = "raised"]
    /\ running' = 0
    /\ reached' = [reached EXCEPT ![p] = {}]
    /\ taken' = [taken EXCEPT ![p] = @ + 1]
    /\ UNCHANGED <<primary, excluding, npass, output, finished>>
    /\ UNCHANGED cvars
    /\ UNCHANGED uvars
    /\ UNCHANGED fvars

Next ==
    \E p \in Passes :
        \/ IterCall(p)
        \/ Start(p)
        \/ Resume(p)
        \/ StepExhausted(p)
        \/ StepDropped(p)
        \/ StepExcluded(p)
        \/ StepYield(p)

\* ------------------------------------------------ IterManager: inputs ----
\* longest general iterator / exclude iterator, largest max_* argument
MaxLen == 2
MaxExclude == 1
MaxLimit == 2

Keys == 1..2

\* all sequences over S of length at most n
SeqsUpTo(S, n) == UNION {[1..k -> S] : k \in 0..n}

\* the elements a general iterator can hold when n case processors are
\* configured
Elements(K, n) ==
    [key : K, cases : [1..n -> BOOLEAN], nonbool : {[j \in 1..n |-> FALSE]},
     wrong : {{}}]

\* the valid max_* arguments: None or a positive int
LimitArgs == {None} \cup {PyInt(n) : n \in 1..MaxLimit}

\* one pass over any short general iterator, any short exclude iterator,
\* any four limits, one case processor
Init ==
    /\ \E general \in SeqsUpTo(Elements(Keys, 1), MaxLen),
          exclude \in SeqsUpTo(Keys, MaxExclude),
          mi \in LimitArgs, mem \in LimitArgs, mte \in LimitArgs,
          mrv \in LimitArgs :
          Constructed(general, exclude, None, mi, mem, mte, mrv, 1, 1)
    /\ CounterOff
    /\ UnitOff
    /\ SHubFetcherOff

Spec == Init /\ [][Next]_vars

\* two passes over one manager, pulled in any interleaving
TwoPassInit ==
    /\ \E general \in SeqsUpTo(Elements(Keys, 1), MaxLen),
          exclude \in SeqsUpTo(Keys, MaxExclude),
          mi \in LimitArgs, mem \in LimitArgs, mte \in LimitArgs,
          mrv \in LimitArgs :
          Constructed(general, exclude, None, mi, mem, mte, mrv, 1, 2)
    /\ CounterOff
    /\ UnitOff
    /\ SHubFetcherOff

TwoPassSpec == TwoPassInit /\ [][Next]_vars

\* ------------------------------------------------- typed stages ----
\* longest general iterator when stages can fail their type checks
MaxTyped == 2

\* the keys of the elements: None and 1
TypedKeys == {0, 1}

\* the elements for which exactly one type check fails: the check named by
\* w, or (w = "nonbool") the check of the last case processor's result
WrongElements(K, n) ==
    [key : K, cases : {[j \in 1..n |-> FALSE]},
     nonbool : {[j \in 1..n |-> FALSE]},
     wrong : {{"value"}, {"context"}, {"return"}}]
    \cup [key : K, cases : {[j \in 1..n |-> FALSE]},
          nonbool : {[j \in 1..n |-> j = n]}, wrong : {{}}]

\* one pass over any short general iterator whose elements pass every type
\* check or fail one; zero or one case processor; any short exclude
\* iterator; max_returned_values omitted or 1
TypedInit ==
    /\ \E n \in {0, 1}, exclude \in SeqsUpTo(Keys, MaxExclude),
          mrv \in {None, PyInt(1)} :
          \E general \in SeqsUpTo(Elements(TypedKeys, n)
                                      \cup WrongElements(TypedKeys, n),
                                  MaxTyped) :
              Constructed(general, exclude, None, None, None, None, mrv, n, 1)
    /\ CounterOff
    /\ UnitOff
    /\ SHubFetcherOff

TypedNext == Next \/ \E p \in Passes : StepRaised(p)

TypedSpec == TypedInit /\ [][TypedNext]_vars

\* ----------------------------------------- a descending job listing ----
\* The keys of the listing, newest first.
ListingKeys == <<30, 29, 28, 27, 26, 25>>

\* longest exclude sequence; largest max_exclude_matches and
\* max_total_excluded
MaxListed == 3
MaxMatches == 2
MaxTotal == 3

Range(s) == {s[i] : i \in DOMAIN s}

\* a sequence of integers is strictly descending
StrictlyDescending(s) == \A i, j \in DOMAIN s : i < j => s[i] > s[j]

\* the descending sequences over the listing's keys, at most n long
DescendingSeqs(n) ==
    {s \in SeqsUpTo(Range(ListingKeys), n) : StrictlyDescending(s)}

\* the listing when exactly the keys in D are dropped by the one case
\* processor (n = 1), or with no case processor configured (n = 0)
Listing(D, n) ==
    [i \in DOMAIN ListingKeys |->
        [key |-> ListingKeys[i],
         cases |-> [j \in 1..n |-> ListingKeys[i] \in D],
         nonbool |-> [j \in 1..n |-> FALSE],
         wrong |-> {}]]

\* one pass over the listing: any set of dropped keys, any descending
\* exclude sequence, any two exclude limits, no other limit
DescInit ==
    /\ \E n \in {0, 1}, D \in SUBSET Range(ListingKeys),
          exclude \in DescendingSeqs(MaxListed),
          mem \in {None} \cup {PyInt(k) : k \in 1..MaxMatches},
          mte \in {None} \cup {PyInt(k) : k \in 1..MaxTotal} :
          /\ n = 0 => D = {}
          /\ Constructed(Listing(D, n), exclude, None, None, mem, mte,
                         None, n, 1)
    /\ CounterOff
    /\ UnitOff
    /\ SHubFetcherOff

DescSpec == DescInit /\ [][Next]_vars

\* ------------------------------------ the fetcher's exclude setting ----
\* longest caller-supplied iterable of known job numbers
MaxSupplied == 3

\* s with x inserted before the first element smaller than x
RECURSIVE InsertDescending(_, _)
InsertDescending(x, s) ==
    IF s = <<>> THEN <<x>>
    ELSE IF x >= Head(s) THEN <<x>> \o s
    ELSE <<Head(s)>> \o InsertDescending(x, Tail(s))

\* exclude_list.sort(reverse=True): every element is kept, repeated ones
\* too
RECURSIVE SortReverse(_)
SortReverse(s) ==
    IF s = <<>> THEN <<>>
    ELSE InsertDescending(Head(s), SortReverse(Tail(s)))

\* SHubFetcher.process_settings, for one spider: the exclude iterator made
\* of the supplied job numbers
ProcessSettings(exclude_iterable) == SortReverse(exclude_iterable)

\* one pass over the listing as the fetcher configures it: any supplied
\* job numbers in any order, job 27 dropped by a case processor or no job
\* dropped, any max_exclude_matches, exclude_default = 0
FetcherInit ==
    /\ \E D \in {{}, {27}},
          supplied \in SeqsUpTo(Range(ListingKeys), MaxSupplied),
          mem \in {None} \cup {PyInt(k) : k \in 1..MaxMatches} :
          Constructed(Listing(D, 1), ProcessSettings(supplied), PyInt(0),
                      None, mem, None, None, 1, 1)
    /\ CounterOff
    /\ UnitOff
    /\ SHubFetcherOff

FetcherSpec == FetcherInit /\ [][Next]_vars

\* ------------------------------- one pass, two case processors ----
\* largest max_* argument that stops a pass early; longest exclude
\* iterator
MaxStop == 1
MaxPending == 2

\* the listing when the first case processor returns True for the keys in
\* D1 and the second one for the keys in D2
JobListing(D1, D2) ==
    [i \in DOMAIN ListingKeys |->
        [key |-> ListingKeys[i],
         cases |-> <<ListingKeys[i] \in D1, ListingKeys[i] \in D2>>,
         nonbool |-> <<FALSE, FALSE>>,
         wrong |-> {}]]

\* the keys an exclude iterator holds: 31 is the key of no job of the
\* listing
PendingKeys == {31, 30, 28}

\* the max_* arguments: omitted, small, or larger than the listing is long
PassLimits ==
    {None} \cup {PyInt(k) : k \in 1..MaxStop}
    \cup {PyInt(Len(ListingKeys) + 1)}

\* the keys the two case processors return True for
DropSets == {<<{}, {}>>, <<{29}, {29, 27}>>, <<{30}, {}>>}

\* one pass over the listing: two case processors, any short exclude
\* iterator in any order, any four limits
PassInit ==
    /\ \E D \in DropSets, exclude \in SeqsUpTo(PendingKeys, MaxPending),
          mi \in PassLimits, mem \in PassLimits, mte \in PassLimits,
          mrv \in PassLimits :
          Constructed(JobListing(D[1], D[2]), exclude, None, mi, mem, mte,
                      mrv, 2, 1)
    /\ CounterOff
    /\ UnitOff
    /\ SHubFetcherOff

PassSpec == PassInit /\ [][Next]_vars

\* --------------------------------------------------- SHubFetcher ----
\* largest valid maximum_returned_jobs
MaxFetched == 1

\* SHubFetcher.__init__ validating all four maximum_* arguments (a faulty
\* variant)
SHubFetcherRaisesAny(arguments) ==
    \/ Threshold(arguments.maximum_fetched_jobs).raised
    \/ Threshold(arguments.maximum_excluded_matches).raised
    \/ Threshold(arguments.maximum_returned_jobs).raised
    \/ Threshold(arguments.maximum_total_excluded).raised

\* SHubFetcher.__init__ raises TypeError: Threshold rejects
\* maximum_fetched_jobs or maximum_excluded_matches
SHubFetcherRaises(arguments) ==
    \/ Threshold(arguments.maximum_fetched_jobs).raised
    \/ Threshold(arguments.maximum_excluded_matches).raised

\* IterManager.__init__ raises TypeError: Threshold rejects a max_*
\* argument (the ExcludeCheck has been built by then)
IterManagerRaises(mi, mem, mte, mrv) ==
    \/ Threshold(mi).raised
    \/ Threshold(mem).raised
    \/ Threshold(mte).raised
    \/ Threshold(mrv).raised

\* latest_spiders_jobkeys building its IterManager with the returned-values
\* counter of the manager built before it (a faulty variant)
LatestSpidersJobkeysShared(f, job_summaries, exclude_iterator) ==
    LET m == IterManager(job_summaries, exclude_iterator, PyInt(0),
                         f.maximum_fetched_jobs, f.maximum_excluded_matches,
                         f.maximum_total_excluded, f.maximum_returned_jobs,
                         2)
    IN  IF pc[1] = "none" THEN m
        ELSE [m EXCEPT !._total_returned_counter =
                           manager._total_returned_counter]

\* SHubFetcher.latest_spiders_jobkeys: the IterManager it builds over the
\* spider's finished jobs and the spider's exclude iterator, with
\* exclude_default = 0, the fetcher's four limits and the two case
\* processors unsuccessful_job and empty_job
LatestSpidersJobkeys(f, job_summaries, exclude_iterator) ==
    IterManager(job_summaries, exclude_iterator, PyInt(0),
                f.maximum_fetched_jobs, f.maximum_excluded_matches,
                f.maximum_total_excluded, f.maximum_returned_jobs, 2)

\* the pass started last, or 0
LastStarted ==
    IF \A p \in Passes : pc[p] \in {"none", "start"} THEN 0
    ELSE CHOOSE p \in Passes :
             /\ pc[p] \notin {"none", "start"}
             /\ \A q \in Passes : pc[q] \notin {"none", "start"} => q <= p

\* what the exclude iterators of self.settings hold now, per spider. The
\* iterator objects are shared with the ExcludeCheck of the manager built
\* last: fetcher.settings is their content when that manager was built,
\* manager._exclude_checker._iterator the content of its spider's one
\* since. (A pass ends raised only when building its manager failed.)
SettingsNow ==
    IF LastStarted = 0 \/ pc[LastStarted] = "raised"
    THEN fetcher.settings
    ELSE [fetcher.settings EXCEPT ![plan[LastStarted].spider] =
             manager._exclude_checker._iterator]

\* SHubFetcher(settings, maximum_*...): the two validated limits, then the
\* attributes, then process_settings
SHubFetcherNew ==
    /\ fetcher.phase = "arguments"
    /\ fetcher' =
          IF SHubFetcherRaises(fetcher.arguments)
          THEN [fetcher EXCEPT !.phase = "raised"]
          ELSE [phase |-> "ready",
                arguments |-> fetcher.arguments,
                maximum_fetched_jobs |->
                    fetcher.arguments.maximum_fetched_jobs,
                maximum_excluded_matches |->
                    fetcher.arguments.maximum_excluded_matches,
                maximum_returned_jobs |->
                    fetcher.arguments.maximum_returned_jobs,
                maximum_total_excluded |->
                    fetcher.arguments.maximum_total_excluded,
                settings |->
                    [s \in DOMAIN fetcher.arguments.settings |->
                        ProcessSettings(fetcher.arguments.settings[s])]]
    /\ UNCHANGED <<jobs, plan>>
    /\ UNCHANGED itvars
    /\ UNCHANGED cvars
    /\ UNCHANGED uvars

\* pass p is the first one of its fetch call
FirstOfCall(p) == IF p = 1 THEN TRUE ELSE plan[p - 1].call # plan[p].call

\* fetcher.fetch_jobkeys(): a generator object is created, none of its
\* body runs
FetchCall(p) ==
    /\ fetcher.phase = "ready"
    /\ running = 0
    /\ p <= npass
    /\ FirstOfCall(p)
    /\ pc[p] = "none"
    /\ \A q \in Passes : q < p => pc[q] # "none"
    /\ pc' = [pc EXCEPT ![p] = "start"]
    /\ UNCHANGED <<manager, primary, excluding, npass, running, ctx, output,
                   finished, reached, taken, invoked>>
    /\ UNCHANGED cvars
    /\ UNCHANGED uvars
    /\ UNCHANGED fvars

\* the generator of latest_spiders_jobkeys is pulled for the first time,
\* for the spider of pass p: on the first pull of a fetch call, or when the
\* pass of the spider before it in the same call has ended. The
\* IterManager is built (pulling one exclude value); if that raises, the
\* fetch call ends with the TypeError. The consumer pulls the generators
\* of its fetch calls in the order of the calls, and a suspended pass of
\* an earlier fetch call is not pulled again ("closed").
SpiderStart(p) ==
    /\ fetcher.phase = "ready"
    /\ running = 0
    /\ p <= npass
    /\ \A q \in Passes : q < p => pc[q] \notin {"none", "start"}
    /\ IF FirstOfCall(p) THEN pc[p] = "start"
       ELSE pc[p] = "none" /\ pc[p - 1] = "done"
    /\ LET s == plan[p].spider
           raises == IterManagerRaises(fetcher.maximum_fetched_jobs,
                                       fetcher.maximum_excluded_matches,
                                       fetcher.maximum_total_excluded,
                                       fetcher.maximum_returned_jobs)
           m == LatestSpidersJobkeys(fetcher, jobs[s], SettingsNow[s])
           closed == [q \in Passes |->
                         IF q < p /\ pc[q] = "yielded" THEN "closed"
                         ELSE pc[q]]
       IN  IF raises
           THEN /\ fetcher' = [fetcher EXCEPT !.settings =
                                  [SettingsNow EXCEPT ![s] =
                                      ExcludeCheck(SettingsNow[s],
                                                   PyInt(0))._iterator]]
                /\ pc' = [closed EXCEPT ![p] = "raised"]
                /\ UNCHANGED <<manager, primary, excluding, running>>
           ELSE /\ fetcher' = [fetcher EXCEPT !.settings =
                                  [SettingsNow EXCEPT ![s] =
                                      m._exclude_checker._iterator]]
                /\ manager' = m
                /\ primary' = jobs[s]
                /\ excluding' = SettingsNow[s]
                /\ pc' = [closed EXCEPT ![p] = "loop"]
                /\ running' = p
    /\ UNCHANGED <<npass, ctx, output, finished, reached, taken, invoked,
                   jobs, plan>>
    /\ UNCHANGED cvars
    /\ UNCHANGED uvars

FetchNext ==
    \/ SHubFetcherNew
    \/ \E p \in Passes :
           \/ FetchCall(p)
           \/ SpiderStart(p)
           \/ Resume(p)
           \/ StepExhausted(p)
           \/ StepDropped(p)
           \/ StepExcluded(p)
           \/ StepYield(p)

\* the maximum_* arguments: omitted, valid, or invalid (negative, or not
\* an int)
FetchedJobsArgs == {None, PyInt(2), PyInt(-1)}
ExcludedMatchesArgs == {None, PyInt(1), PyStr}
ReturnedJobsArgs == {None, PyInt(-1)} \cup {PyInt(k) : k \in 1..MaxFetched}
TotalExcludedArgs == {None, PyInt(1), PyStr}

\* the settings: the job numbers supplied for one spider, in any order and
\* with repetitions, or for two spiders
SettingsArgs ==
    {<<supplied>> : supplied \in SeqsUpTo({30, 29}, MaxSupplied)}
    \cup {<<supplied, other>> :
             supplied \in SeqsUpTo({30, 29}, MaxSupplied),
             other \in {<<>>, <<30>>}}

\* before SHubFetcher(...) is called: settings for one spider, fetched by
\* two fetch_jobkeys() calls one after the other, or settings for two
\* spiders, fetched by one call
FetchInit ==
    /\ Constructed(<<>>, <<>>, None, None, None, None, None, 0, 2)
    /\ CounterOff
    /\ UnitOff
    /\ \E settings \in SettingsArgs, mfj \in FetchedJobsArgs,
          mem \in ExcludedMatchesArgs, mrj \in ReturnedJobsArgs,
          mte \in TotalExcludedArgs, D \in {<<{}, {}>>, <<{29}, {29, 27}>>} :
          /\ fetcher = [phase |-> "arguments",
                        arguments |->
                            [settings |-> settings,
                             maximum_fetched_jobs |-> mfj,
                             maximum_excluded_matches |-> mem,
                             maximum_returned_jobs |-> mrj,
                             maximum_total_excluded |-> mte],
                        maximum_fetched_jobs |-> None,
                        maximum_excluded_matches |-> None,
                        maximum_returned_jobs |-> None,
                        maximum_total_excluded |-> None,
                        settings |-> <<>>]
          /\ jobs = [s \in DOMAIN settings |-> JobListing(D[1], D[2])]
          /\ plan = IF Len(settings) = 1
                    THEN [p \in Passes |-> [call |-> p, spider |-> 1]]
                    ELSE [p \in Passes |-> [call |-> 1, spider |-> p]]

FetchSpec == FetchInit /\ [][FetchNext]_vars

\* ------------------------------- Threshold and counter on their own ----
\* no IterManager is exercised
ManagerOff ==
    Constructed(<<>>, <<>>, None, None, None, None, None, 0, 0)

\* the arguments Threshold(...) is called with
ThresholdArgs ==
    {None, PyStr, PyBool(TRUE), PyBool(FALSE)}
        \cup {PyInt(n) : n \in (0 - MaxNeg)..MaxThr}

CounterSpecInit ==
    /\ ManagerOff
    /\ cphase = "arg"
    /\ arg \in ThresholdArgs
    /\ threshold = Threshold(None)
    /\ counter = CounterWithThreshold(Threshold(None))
    /\ ret = "none"
    /\ calls = 0
    /\ toggled = FALSE
    /\ UnitOff
    /\ SHubFetcherOff

\* Threshold(arg)
NewThreshold ==
    /\ cphase = "arg"
    /\ cphase' = IF Threshold(arg).raised THEN "raised" ELSE "threshold"
    /\ threshold' = IF Threshold(arg).raised THEN threshold
                    ELSE Threshold(arg)
    /\ UNCHANGED <<arg, counter, ret, calls, toggled>>
    /\ UNCHANGED itvars
    /\ UNCHANGED uvars
    /\ UNCHANGED fvars

\* CounterWithThreshold(threshold)
NewCounter ==
    /\ cphase = "threshold"
    /\ cphase' = "counter"
    /\ counter' = CounterWithThreshold(threshold)
    /\ UNCHANGED <<arg, threshold, ret, calls, toggled>>
    /\ UNCHANGED itvars
    /\ UNCHANGED uvars
    /\ UNCHANGED fvars

\* counter.add()
Add ==
    /\ cphase = "counter"
    /\ calls < MaxCount
    /\ counter._count < MaxCount
    /\ counter' = CounterAdd(counter).c
    /\ ret' = CounterAdd(counter).ret
    /\ calls' = calls + 1
    /\ UNCHANGED <<cphase, arg, threshold, toggled>>
    /\ UNCHANGED itvars
    /\ UNCHANGED uvars
    /\ UNCHANGED fvars

\* counter.drop()
Drop ==
    /\ cphase = "counter"
    /\ counter' = CounterDrop(counter)
    /\ ret' = "none"
    /\ calls' = 0
    /\ UNCHANGED <<cphase, arg, threshold, toggled>>
    /\ UNCHANGED itvars
    /\ UNCHANGED uvars
    /\ UNCHANGED fvars

\* counter.enable()
Enable ==
    /\ cphase = "counter"
    /\ counter' = CounterEnable(counter)
    /\ ret' = "none"
    /\ toggled' = TRUE
    /\ UNCHANGED <<cphase, arg, threshold, calls>>
    /\ UNCHANGED itvars
    /\ UNCHANGED uvars
    /\ UNCHANGED fvars

\* counter.disable()
Disable ==
    /\ cphase = "counter"
    /\ counter' = CounterDisable(counter)
    /\ ret' = "none"
    /\ toggled' = TRUE
    /\ UNCHANGED <<cphase, arg, threshold, calls>>
    /\ UNCHANGED itvars
    /\ UNCHANGED uvars
    /\ UNCHANGED fvars

CounterNext ==
    \/ NewThreshold
    \/ NewCounter
    \/ Add
    \/ Drop
    \/ Enable
    \/ Disable

CounterSpec == CounterSpecInit /\ [][CounterNext]_vars

\* ------------------------------------------ ExcludeCheck on its own ----
\* longest exclude iterator
MaxCursor == 3

\* the values check_next is called with, the exclude defaults
ProbeKeys == {None} \cup {PyInt(k) : k \in 0..2}
ExcludeDefaults == {None, PyInt(0), PyInt(1)}

\* ExcludeCheck(iterator, default) over any short iterator
ExcludeSpecInit ==
    /\ ManagerOff
    /\ CounterOff
    /\ SHubFetcherOff
    /\ unit = "exclude"
    /\ \E iterator \in SeqsUpTo(Keys, MaxCursor),
          default \in ExcludeDefaults :
          checker = ExcludeCheck(iterator, default)
    /\ probe = [called |-> FALSE, key |-> None, ret |-> FALSE]
    /\ ContextOff
    /\ FuncOff

\* checker.check_next(key)
CheckNextCall(key) ==
    /\ unit = "exclude"
    /\ checker' = CheckNext(checker, key).ec
    /\ probe' = [called |-> TRUE, key |-> key,
                 ret |-> CheckNext(checker, key).ret]
    /\ UNCHANGED <<unit, context, fields, history, setitem, func, outcome>>
    /\ UNCHANGED itvars
    /\ UNCHANGED cvars
    /\ UNCHANGED fvars

ExcludeNext == \E key \in ProbeKeys : CheckNextCall(key)

ExcludeSpec == ExcludeSpecInit /\ [][ExcludeNext]_vars

\* ----------------------------------------------- Context on its own ----
\* most set_close_reason calls on one context
MaxReasons == 3

\* the messages set_close_reason is called with, the keys and values
\* written with context[key] = value
Messages == {"", "a", "b"}
ItemKeys == LockKeys \cup AuxKeys
ItemValues == {PyInt(1), PyInt(2)}

\* Context(value, exclude_value)
ContextSpecInit ==
    /\ ManagerOff
    /\ CounterOff
    /\ SHubFetcherOff
    /\ unit = "context"
    /\ context = Context(PyInt(1), PyInt(1))
    /\ fields = [k \in AuxKeys |-> Absent]
    /\ history = <<>>
    /\ setitem = [called |-> FALSE, key |-> "", value |-> None,
                  raised |-> FALSE]
    /\ CheckerOff
    /\ FuncOff

\* context.set_close_reason(message)
SetCloseReasonCall(message) ==
    /\ unit = "context"
    /\ Len(history) < MaxReasons
    /\ context' = SetCloseReason(context, message)
    /\ history' = Append(history, message)
    /\ UNCHANGED <<unit, checker, probe, fields, setitem, func, outcome>>
    /\ UNCHANGED itvars
    /\ UNCHANGED cvars
    /\ UNCHANGED fvars

\* context[key] = value
SetItemCall(key, value) ==
    /\ unit = "context"
    /\ context' = SetItem(context, fields, key, value).ctx
    /\ fields' = SetItem(context, fields, key, value).fields
    /\ setitem' = [called |-> TRUE, key |-> key, value |-> value,
                   raised |-> SetItem(context, fields, key, value).raised]
    /\ UNCHANGED <<unit, checker, probe, history, func, outcome>>
    /\ UNCHANGED itvars
    /\ UNCHANGED cvars
    /\ UNCHANGED fvars

ContextNext ==
    \/ \E message \in Messages : SetCloseReasonCall(message)
    \/ \E key \in ItemKeys, value \in ItemValues : SetItemCall(key, value)

ContextSpec == ContextSpecInit /\ [][ContextNext]_vars

\* ------------------------------------------- Context with update ----
\* most items of a dictionary passed to update
MaxUpdate == 2

\* the dictionaries update is called with: up to MaxUpdate items with
\* distinct keys, in insertion order
Dictionaries ==
    {d \in UNION {[1..k -> ItemKeys \X ItemValues] : k \in 1..MaxUpdate} :
        \A i, j \in DOMAIN d : i < j => d[i][1] # d[j][1]}

\* the messages set_close_reason is called with between updates
UpdateMessages == {"", "a"}

\* Context(value, exclude_value) for any two different arguments
ContextUpdateInit ==
    /\ ManagerOff
    /\ CounterOff
    /\ SHubFetcherOff
    /\ unit = "context"
    /\ \E value \in ItemValues, exclude_value \in ItemValues :
          /\ value # exclude_value
          /\ context = Context(value, exclude_value)
    /\ fields = [k \in AuxKeys |-> Absent]
    /\ history = <<>>
    /\ setitem = [called |-> FALSE, key |-> "", value |-> None,
                  raised |-> FALSE]
    /\ CheckerOff
    /\ FuncOff

\* context.update(dictionary)
UpdateCall(dictionary) ==
    /\ unit = "context"
    /\ LET u == Update(context, fields, dictionary)
       IN  /\ context' = u.ctx
           /\ fields' = u.fields
           /\ setitem' = [called |-> TRUE, key |-> dictionary[u.done][1],
                          value |-> dictionary[u.done][2],
                          raised |-> u.raised]
    /\ UNCHANGED <<unit, checker, probe, history, func, outcome>>
    /\ UNCHANGED itvars
    /\ UNCHANGED cvars
    /\ UNCHANGED fvars

ContextUpdateNext ==
    \/ \E message \in UpdateMessages : SetCloseReasonCall(message)
    \/ \E key \in ItemKeys, value \in ItemValues : SetItemCall(key, value)
    \/ \E dictionary \in Dictionaries : UpdateCall(dictionary)

ContextUpdateSpec == ContextUpdateInit /\ [][ContextUpdateNext]_vars

\* ------------------------------------- StronglyTypedFunc on its own ----
\* the values a wrapped function is called with and returns
FuncValues == {None, PyInt(1), PyBool(TRUE), PyStr}

\* StronglyTypedFunc(function, input_type, output_type) for any function
\* over the values and any two declared types
FuncSpecInit ==
    /\ ManagerOff
    /\ CounterOff
    /\ SHubFetcherOff
    /\ unit = "func"
    /\ \E function \in [FuncValues -> FuncValues],
          input_type \in PyTypes \cup {NoType},
          output_type \in PyTypes \cup {NoType} :
          func = StronglyTypedFunc(function, input_type, output_type)
    /\ outcome = [called |-> FALSE, input |-> None, raised |-> FALSE,
                  invoked |-> FALSE, value |-> None]
    /\ CheckerOff
    /\ ContextOff

\* func.call(input_value)
CallCall(input_value) ==
    /\ unit = "func"
    /\ outcome' = [called |-> TRUE, input |-> input_value,
                   raised |-> Call(func, input_value).raised,
                   invoked |-> Call(func, input_value).invoked,
                   value |-> Call(func, input_value).value]
    /\ UNCHANGED <<unit, checker, probe, context, fields, history, setitem,
                   func>>
    /\ UNCHANGED itvars
    /\ UNCHANGED cvars
    /\ UNCHANGED fvars

FuncNext == \E input_value \in FuncValues : CallCall(input_value)

FuncSpec == FuncSpecInit /\ [][FuncNext]_vars

\* ============================================================ claims ====

\* ---- Threshold and counter on their own (CounterSpec) ----

\* the counter was built from a threshold n >= 1 and only add() and drop()
\* have been called on it
CountingUntoggled ==
    cphase = "counter" /\ ~toggled /\ ThresholdBool(threshold)

\* the counter was built from Threshold(None) or Threshold(0) and only
\* add() and drop() have been called on it
DisabledUntoggled ==
    /\ cphase = "counter" /\ ~toggled
    /\ arg \in {None, PyInt(0)}

\* C8 (P3, sticky reached): for a counter with threshold t >= 1 on which
\* only add() and drop() are called, the n-th add() since construction or
\* since the last drop() returns True iff n >= t, and the count is the
\* number of add() calls since then (0 right after drop()).
C8_StickyReached ==
    CountingUntoggled =>
        /\ counter._count = calls
        /\ ret # "TypeError"
        /\ ret # "none" => (ret = "True" <=> calls >= threshold._value)

\* C8 witness: threshold 3, the fifth add() in a row still returns True
C8_Witness ==
    /\ CountingUntoggled
    /\ threshold._value = 3
    /\ calls = 5
    /\ ret = "True"

\* C9 (P4): on a counter built from Threshold(None) or Threshold(0), with
\* add() and drop() called in any order, every add() returns False and
\* leaves the counter as it was.
C9_DisabledNeverFires ==
    [][(DisabledUntoggled /\ calls' = calls + 1)
          => (ret' = "False" /\ counter' = counter)]_vars

\* C9 witness: Threshold(0), three add() calls in a row, the last returned
\* False
C9_Witness ==
    /\ DisabledUntoggled
    /\ arg = PyInt(0)
    /\ calls = 3
    /\ ret = "False"

\* C10: once Threshold(arg) has run: a negative int and a non-int non-None
\* argument raised; None and 0 gave a falsy threshold whose value is None;
\* an int n >= 1 gave a threshold whose value is n.
C10_ThresholdConstruction ==
    cphase # "arg" =>
        /\ (arg.t = "int" /\ arg.v < 0) => cphase = "raised"
        /\ ~IsInstanceInt(arg) /\ arg # None => cphase = "raised"
        /\ arg \in {None, PyInt(0)} =>
              /\ cphase # "raised"
              /\ threshold._value = 0
              /\ ThresholdValue(threshold) = None
              /\ ~ThresholdBool(threshold)
        /\ (arg.t = "int" /\ arg.v >= 1) =>
              /\ cphase # "raised"
              /\ ThresholdValue(threshold) = PyInt(arg.v)
              /\ ThresholdBool(threshold)

\* C10 witness: Threshold(-1) raised
C10_Witness ==
    /\ cphase = "raised"
    /\ arg = PyInt(-1)

\* ---- IterManager ----

\* the keys of a sequence of elements
KeysOf(s) == [i \in DOMAIN s |-> s[i].key]

\* some case processor returns True for the element
IsDropped(e) == \E i \in DOMAIN e.cases : e.cases[i]

\* the four counters of the manager
CountersOf(m) ==
    [total_iterations |-> m._total_iterations_counter,
     exclude_matches |-> m._exclude_matches_counter,
     total_excluded |-> m._total_excluded_counter,
     total_returned |-> m._total_returned_counter]

CounterNames == {"total_iterations", "exclude_matches", "total_excluded",
                 "total_returned"}

\* the close-reason message of each counter
MsgOf(name) ==
    CASE name = "total_iterations" -> MsgIterations
      [] name = "exclude_matches" -> MsgExcludeMatches
      [] name = "total_excluded" -> MsgTotalExcluded
      [] name = "total_returned" -> MsgReturnedValues

\* the manager was built with no threshold at all
NoLimits ==
    \A n \in CounterNames : ~ThresholdBool(CountersOf(manager)[n]._threshold)

NotInExcluding(k) == k \notin Range(excluding)

\* C1 (P1): a manager with no thresholds and no case processors, a strictly
\* descending exclude sequence E and a general iterator whose keys are
\* strictly descending and contain every key of E: once the pass is fully
\* consumed, its output is exactly the keys not in E, in their order.
C1_ExclusionCorrectness ==
    (/\ pc[1] = "done"
     /\ NoLimits
     /\ manager._case_processors = 0
     /\ StrictlyDescending(excluding)
     /\ StrictlyDescending(KeysOf(primary))
     /\ Range(excluding) \subseteq Range(KeysOf(primary)))
    => /\ output[1] = SelectSeq(KeysOf(primary), NotInExcluding)
       /\ finished[1] = <<>>

\* C1 witness: E = 29, 27, 25 interleaved with non-matching keys, pass
\* fully consumed
C1_Witness ==
    /\ pc[1] = "done"
    /\ NoLimits
    /\ manager._case_processors = 0
    /\ excluding = <<29, 27, 25>>
    /\ output[1] = <<30, 28, 26>>

\* the end-to-end scenario: jobs 30..25, job 27 dropped by the case
\* processor, exclude sequence 28, 27, 26, max_exclude_matches = 2, no
\* other limit
EndToEndScenario ==
    /\ KeysOf(primary) = <<30, 29, 28, 27, 26, 25>>
    /\ \A i \in DOMAIN primary : IsDropped(primary[i]) <=> primary[i].key = 27
    /\ excluding = <<28, 27, 26>>
    /\ manager._exclude_matches_counter._threshold._value = 2
    /\ \A n \in CounterNames \ {"exclude_matches"} :
          ~ThresholdBool(CountersOf(manager)[n]._threshold)

\* C2: in the end-to-end scenario the fully consumed pass has yielded
\* exactly 30, 29 and has stopped on the exclude-matches threshold.
C2_EndToEnd ==
    (EndToEndScenario /\ pc[1] = "done")
    => /\ output[1] = <<30, 29>>
       /\ Len(finished[1]) = 1
       /\ ContextCloseReason(finished[1][1]).msg = MsgExcludeMatches

\* C3 (P5): a step that pulls an element for which a case processor returns
\* True yields nothing, calls no before_finish and leaves the exclude
\* cursor and all counters as they were.
C3_DroppedElementFrame ==
    [][\A p \in Passes :
          (/\ manager._general_iterator # <<>>
           /\ taken'[p] = taken[p] + 1
           /\ IsDropped(Head(manager._general_iterator)))
          => /\ output' = output
             /\ finished' = finished
             /\ manager'._exclude_checker = manager._exclude_checker
             /\ CountersOf(manager') = CountersOf(manager)]_vars

\* C3 witness: the element just dropped has the cursor's pending value as
\* its exclude key, and the cursor still holds it
C3_Witness ==
    /\ pc[1] = "loop"
    /\ taken[1] >= 1
    /\ IsDropped(ctx[1].value)
    /\ ~manager._exclude_checker._is_completed
    /\ ctx[1].exclude_value = manager._exclude_checker._value

\* The stop state of a pass (C4): a pass stops exactly on the first element
\* on which a counter reported reached. While the pass goes on no counter has reported reached
\* on a processed element and before_finish was not called; a pass that
\* ended either found the general iterator exhausted with no counter
\* reached and no before_finish call, or called before_finish once, with
\* the context of the element that reached, which holds the message of
\* every counter that reported reached. A pass that ended pulls nothing.
C4_StopState(p) ==
    /\ Len(finished[p]) <= 1
    /\ pc[p] \in {"none", "start", "loop"} =>
          reached[p] = {} /\ finished[p] = <<>>
    /\ pc[p] = "yielded" =>
          reached[p] \subseteq {"total_returned"} /\ finished[p] = <<>>
    /\ pc[p] = "done" /\ reached[p] = {} =>
          finished[p] = <<>> /\ manager._general_iterator = <<>>
    /\ pc[p] = "done" /\ reached[p] # {} =>
          /\ finished[p] = <<ctx[p]>>
          /\ \A n \in reached[p] : MsgOf(n) \in Range(ctx[p].close_reason)
    /\ pc[p] # "raised"

\* C4: in every step the state reached is a stop state as described above
\* for every pass; a pass that ended stays ended, pulls nothing and changes
\* nothing; a pass suspended at a yield on which the returned-values
\* counter reported reached ends on the next pull.
C4_StopsOnFirstReached ==
    [][\A p \in Passes :
          /\ C4_StopState(p)'
          /\ pc[p] = "done" => (pc'[p] = "done" /\ taken' = taken
                                /\ manager' = manager)
          /\ (pc[p] = "yielded" /\ reached[p] # {}) => pc'[p] = "done"]_vars

\* C4 witness: the pass stopped on a counter while the general iterator
\* still holds elements
C4_Witness ==
    /\ pc[1] = "done"
    /\ reached[1] = {"exclude_matches"}
    /\ finished[1] = <<ctx[1]>>
    /\ manager._general_iterator # <<>>

\* the elements pass p pulled that no case processor dropped
Kept(p) == SelectSeq(SubSeq(primary, 1, taken[p]), LAMBDA e : ~IsDropped(e))

\* the i-th kept element of pass p was excluded (keys are distinct in the
\* listing, so: it was not yielded)
WasExcluded(p, i) == Kept(p)[i].key \notin Range(output[p])

\* how many elements pass p excluded
ExcludedCount(p) ==
    Cardinality({i \in DOMAIN Kept(p) : WasExcluded(p, i)})

\* how many elements pass p excluded since the last one it yielded
Streak(p) ==
    LET n == Len(Kept(p))
    IN  CHOOSE k \in 0..n :
            /\ \A i \in (n - k + 1)..n : WasExcluded(p, i)
            /\ k = n \/ ~WasExcluded(p, n - k)

\* C5 (P2): with max_exclude_matches = c and max_total_excluded = t the
\* two counters are independent: the consecutive count is the number of
\* excluded elements since the last yielded one (every yield resets it), the
\* total count is the number of excluded elements (no yield changes it);
\* the pass goes on while the streak is below c and the total below t, and
\* it stops with the exclude-matches reason exactly when the streak reaches
\* c and with the total-excluded reason exactly when the total reaches t.
C5_IndependentCounters ==
    LET cc == manager._exclude_matches_counter
        tc == manager._total_excluded_counter
        c == cc._threshold._value
        t == tc._threshold._value
    IN  (ThresholdBool(cc._threshold) /\ ThresholdBool(tc._threshold)
         /\ pc[1] # "none")
        => /\ cc._count = Streak(1)
           /\ tc._count = ExcludedCount(1)
           /\ Streak(1) <= c /\ ExcludedCount(1) <= t
           /\ pc[1] # "done" =>
                 Streak(1) < c /\ ExcludedCount(1) < t /\ finished[1] = <<>>
           /\ pc[1] = "done" =>
                 /\ finished[1] # <<>> <=>
                       (Streak(1) = c \/ ExcludedCount(1) = t)
                 /\ finished[1] # <<>> =>
                       finished[1][1].close_reason =
                           (IF Streak(1) = c
                            THEN <<MsgExcludeMatches>> ELSE <<>>)
                           \o (IF ExcludedCount(1) = t
                               THEN <<MsgTotalExcluded>> ELSE <<>>)

\* C5 witness: c = 2, t = 3, excluded and yielded elements alternate; the
\* pass stops on the third excluded element with the total-excluded reason
\* only
C5_Witness ==
    /\ pc[1] = "done"
    /\ manager._exclude_matches_counter._threshold._value = 2
    /\ manager._total_excluded_counter._threshold._value = 3
    /\ excluding = <<30, 28, 26>>
    /\ output[1] = <<29, 27>>
    /\ finished[1] # <<>>
    /\ finished[1][1].close_reason = <<MsgTotalExcluded>>
    /\ manager._exclude_matches_counter._count = 1

\* C6 (P6): before_finish has been called on a pass only if that pass ended
\* on an element on which a counter reported reached; in every other state
\* (the consumer may stop pulling in any of them) it has not been called.
C6_FinishOnlyOnCounterStop ==
    \A p \in Passes :
        finished[p] # <<>> => (pc[p] = "done" /\ reached[p] # {})

\* C6 witness: one value was consumed, limits are configured, no counter
\* has reported reached, elements remain and before_finish was not called
C6_Witness ==
    /\ pc[1] = "yielded"
    /\ Len(output[1]) = 1
    /\ ~NoLimits
    /\ reached[1] = {}
    /\ manager._general_iterator # <<>>
    /\ finished[1] = <<>>

\* C7: a pass that has been created and not yet pulled finds the four
\* counters at zero and the exclude cursor where construction left it,
\* whatever other passes over the same manager have done.
C7_PassOwnsCountersAndCursor ==
    \A p \in Passes :
        pc[p] = "start" =>
            /\ \A n \in CounterNames : CounterCount(CountersOf(manager)[n]) <= 0
            /\ manager._exclude_checker = ExcludeCheck(excluding, None)

\* C12: with max_iterations = N a pass has pulled at most N elements of the
\* general iterator, whatever the case processors do.
C12_MaxIterationsBoundsScan ==
    LET th == manager._total_iterations_counter._threshold
    IN  ThresholdBool(th) => \A p \in Passes : taken[p] <= th._value

\* the pass is suspended at the yield of its N-th value, N being
\* max_returned_values
AtLastValue(p) ==
    /\ ThresholdBool(manager._total_returned_counter._threshold)
    /\ pc[p] = "yielded"
    /\ Len(output[p]) = manager._total_returned_counter._threshold._value

\* C13: with max_returned_values = N a pass yields at most N values; when
\* the N-th value is yielded the returned-values close reason is set and
\* before_finish has not been called; the consumer's next pull ends the
\* pass without pulling an element or yielding a value, and before_finish
\* has then been called exactly once, with the context holding that reason.
C13_MaxReturnedValues ==
    [][LET th == manager._total_returned_counter._threshold
       IN  /\ ThresholdBool(th) => Len(output'[1]) <= th._value
           /\ AtLastValue(1)' =>
                 /\ MsgReturnedValues \in Range(ctx'[1].close_reason)
                 /\ finished'[1] = <<>>
           /\ AtLastValue(1) =>
                 /\ pc'[1] = "done"
                 /\ taken' = taken
                 /\ output' = output
                 /\ manager'._general_iterator = manager._general_iterator
                 /\ finished'[1] = <<ctx'[1]>>
                 /\ MsgReturnedValues \in Range(ctx'[1].close_reason)]_vars

\* C13 witness: max_returned_values = 2, two values were yielded, the next
\* pull ended the pass with one before_finish call while elements remain
C13_Witness ==
    /\ pc[1] = "done"
    /\ manager._total_returned_counter._threshold._value = 2
    /\ Len(output[1]) = 2
    /\ Len(finished[1]) = 1
    /\ ContextCloseReason(finished[1][1]).msg = MsgReturnedValues

\* C20: on a counter whose threshold is absent, after any calls of add(),
\* drop(), enable() and disable(), add() returns False, does not raise and
\* does not count.
C20_PermanentlyDisabled ==
    [][(/\ cphase = "counter"
        /\ ~ThresholdBool(threshold)
        /\ calls' = calls + 1)
       => (ret' = "False" /\ counter'._count = counter._count)]_vars

\* ---- ExcludeCheck, StronglyTypedFunc and Context on their own ----

\* C11: check_next(key) returns True iff the cursor is not completed and
\* key equals the pending value; on True the cursor moves to the next
\* element of the exclude iterator, or is completed with the default as
\* pending value when none is left; on False the cursor is unchanged; a
\* completed cursor returns False for every key, the default included.
C11_CheckNextContract ==
    [][unit = "exclude" =>
          /\ probe'.ret <=>
                (~checker._is_completed /\ probe'.key = checker._value)
          /\ (probe'.ret /\ checker._iterator # <<>>) =>
                /\ ~checker'._is_completed
                /\ checker'._value = PyInt(Head(checker._iterator))
                /\ checker'._iterator = Tail(checker._iterator)
          /\ (probe'.ret /\ checker._iterator = <<>>) =>
                /\ checker'._is_completed
                /\ checker'._value = checker._default
                /\ checker'._iterator = <<>>
          /\ ~probe'.ret => checker' = checker
          /\ checker._is_completed => ~probe'.ret]_vars

\* C11 witness: the cursor is completed, its default is 1, and
\* check_next(1) has just returned False
C11_Witness ==
    /\ unit = "exclude"
    /\ checker._is_completed
    /\ checker._default = PyInt(1)
    /\ probe.called /\ probe.key = PyInt(1) /\ ~probe.ret

\* the value satisfies the declared type; the declared type None is
\* satisfied by every value
Satisfies(x, T) ==
    \/ T = NoType
    \/ T = "object"
    \/ T = x.t
    \/ T = "int" /\ x.t = "bool"

\* C14: call(x) raises without invoking the wrapped function when x does
\* not satisfy the declared input type; it raises after invoking it, and
\* returns no value, when the result does not satisfy the declared output
\* type; otherwise it returns the result; a declared type of None accepts
\* every value.
C14_TypedCall ==
    (unit = "func" /\ outcome.called) =>
        LET x == outcome.input
            y == func.function[x]
            inOk == Satisfies(x, func.input_type)
            outOk == Satisfies(y, func.output_type)
        IN  /\ ~inOk => (outcome.raised /\ ~outcome.invoked)
            /\ (inOk /\ ~outOk) => (outcome.raised /\ outcome.invoked)
            /\ (inOk /\ outOk) =>
                  (~outcome.raised /\ outcome.invoked /\ outcome.value = y)
            /\ (func.input_type = NoType /\ func.output_type = NoType) =>
                  ~outcome.raised

\* C14 witness: input type int, output type str; the function was invoked
\* with True and returned None, and the call raised
C14_Witness ==
    /\ unit = "func"
    /\ func.input_type = "int" /\ func.output_type = "str"
    /\ outcome.called /\ outcome.input = PyBool(TRUE)
    /\ func.function[PyBool(TRUE)] = None
    /\ outcome.raised /\ outcome.invoked

\* C15: the close-reason log is append-only: it holds every message
\* set_close_reason was called with, the empty string included, in order;
\* close_reason returns the last one, and None only when none was set.
C15_AppendOnlyLog ==
    unit = "context" =>
        /\ context.close_reason = history
        /\ history # <<>> =>
              /\ ContextCloseReason(context).some
              /\ ContextCloseReason(context).msg = history[Len(history)]
        /\ history = <<>> => ~ContextCloseReason(context).some

\* C16 as stated, with two reserved keys: context[key] = value succeeds
\* for every key other than 'value' and 'exclude_value' and is then read
\* back; for those two it raises and changes nothing.
C16_TwoReservedKeys ==
    [][(unit = "context" /\ history' = history) =>
          LET k == setitem'.key
          IN  IF k \in {"value", "exclude_value"}
              THEN /\ setitem'.raised
                   /\ context' = context /\ fields' = fields
              ELSE /\ ~setitem'.raised
                   /\ ~GetItem(context', fields', k).raised
                   /\ GetItem(context', fields', k).value = setitem'.value
       ]_vars

\* C16 (amended), with the three locked keys: context[key] = value succeeds
\* for every key other than 'value', 'exclude_value' and 'close_reason',
\* is then read back as context[key] and changes no other entry; for each
\* of those three keys it raises and changes nothing.
C16_ThreeReservedKeys ==
    [][(unit = "context" /\ history' = history) =>
          LET k == setitem'.key
          IN  IF k \in {"value", "exclude_value", "close_reason"}
              THEN /\ setitem'.raised
                   /\ context' = context /\ fields' = fields
              ELSE /\ ~setitem'.raised
                   /\ ~GetItem(context', fields', k).raised
                   /\ GetItem(context', fields', k).value = setitem'.value
                   /\ context' = context
                   /\ \A j \in AuxKeys \ {k} : fields'[j] = fields[j]
       ]_vars

\* C16 witness: context['close_reason'] = 1 has just raised on a context
\* with a close reason, and an auxiliary entry was written before
C16_Witness ==
    /\ unit = "context"
    /\ setitem.called /\ setitem.key = "close_reason" /\ setitem.raised
    /\ context.close_reason = <<"a">>
    /\ fields["note"] = PyInt(2)

\* no element of the general iterator is dropped by a case processor
NothingDropped == \A i \in DOMAIN primary : ~IsDropped(primary[i])

AllOmitted ==
    /\ excluding = <<>>
    /\ NoLimits
    /\ manager._case_processors = 0
    /\ \A i \in DOMAIN primary : primary[i].wrong = {}

\* C17: with every option omitted the pass yields each element it pulls,
\* in order; it raises nothing, never calls before_finish, and ends only
\* when the general iterator is exhausted: its output is the general
\* iterator element for element.
C17_DefaultsAreIdentity ==
    AllOmitted =>
        /\ pc[1] # "raised"
        /\ output[1] = SubSeq(KeysOf(primary), 1, taken[1])
        /\ finished[1] = <<>>
        /\ pc[1] = "done" => output[1] = KeysOf(primary)

\* C17 witness: the elements None and 1 were both yielded and the pass
\* ended; None is also the pending value of the completed exclude cursor
C17_Witness ==
    /\ AllOmitted
    /\ pc[1] = "done"
    /\ output[1] = <<0, 1>>
    /\ manager._exclude_checker._value = None

\* a stage raises TypeError for element e in manager m: the context
\* processor; or a case processor that is reached; or, for an element that
\* is neither dropped nor excluded, the return value processor
Offends(m, e) ==
    \/ e.wrong \cap {"value", "context"} # {}
    \/ \E i \in DOMAIN e.nonbool :
          e.nonbool[i] /\ \A j \in 1..(i - 1) : ~e.cases[j]
    \/ /\ "return" \in e.wrong
       /\ ~IsDropped(e)
       /\ \/ m._exclude_checker._is_completed
          \/ m._exclude_checker._value # KeyValue(e.key)

\* C18: a step in which a pass pulls an element for which a stage raises
\* TypeError ends the pass with the exception, yields nothing and calls no
\* before_finish; a pass that ended with an exception stays so, pulls no
\* further element and yields nothing more.
C18_TypeErrorAbortsPass ==
    [][\A p \in Passes :
          /\ (/\ manager._general_iterator # <<>>
              /\ taken'[p] = taken[p] + 1
              /\ Offends(manager, Head(manager._general_iterator)))
             => /\ pc'[p] = "raised"
                /\ output' = output
                /\ finished' = finished
          /\ pc[p] = "raised"
             => /\ pc'[p] = "raised"
                /\ taken'[p] = taken[p]
                /\ output'[p] = output[p]
                /\ manager'._general_iterator = manager._general_iterator
       ]_vars

\* C18 witness: the return value processor raised for the first element;
\* nothing was yielded and an element is left in the general iterator
C18_Witness ==
    /\ pc[1] = "raised"
    /\ taken[1] = 1
    /\ "return" \in ctx[1].value.wrong
    /\ output[1] = <<>>
    /\ manager._general_iterator # <<>>

\* ---- the running count (CounterSpec) ----

\* C21: the count property of a CounterWithThreshold is a non-negative
\* integer in every reachable state, with a threshold or without one.
C21_CountNonNegative ==
    cphase = "counter" => CounterCount(counter) >= 0

\* ---- one pass, two case processors (PassSpec) ----

\* every counter of the manager has a threshold
AllCountersEnabled ==
    \A n \in CounterNames : CountersOf(manager)[n]._is_enabled

\* C22: in a single pass with all four counters enabled, after each
\* element has been fully processed (the generator is back at the top of
\* the loop, or finished) the total-returned count is the number of values
\* yielded, the total-excluded count the number of excluded elements, the
\* consecutive-match count the number of excluded elements since the last
\* yielded one, and the total-iterations count their sum of returned and
\* excluded.
C22_CounterBookkeeping ==
    (AllCountersEnabled /\ pc[1] \in {"loop", "done"})
    => /\ manager._total_returned_counter._count = Len(output[1])
       /\ manager._total_excluded_counter._count = ExcludedCount(1)
       /\ manager._exclude_matches_counter._count = Streak(1)
       /\ manager._total_iterations_counter._count =
              Len(output[1]) + ExcludedCount(1)

\* C22 witness: all four limits above the listing's length, jobs 30 and 28
\* excluded, jobs 29 and 27 dropped; the pass ran to the end of the listing
C22_Witness ==
    /\ AllCountersEnabled
    /\ pc[1] = "done"
    /\ taken[1] = Len(primary)
    /\ excluding = <<30, 28>>
    /\ output[1] = <<26, 25>>
    /\ IsDropped(primary[2])
    /\ manager._total_excluded_counter._count = 2
    /\ manager._total_iterations_counter._count = 4

\* how many values have been pulled from the general iterator and from
\* the exclude iterator (the pull that found it exhausted included)
PulledPrimary == Len(primary) - Len(manager._general_iterator)
PulledExclude ==
    Len(excluding) - Len(manager._exclude_checker._iterator)
    + (IF manager._exclude_checker._is_completed THEN 1 ELSE 0)

Min(a, b) == IF a <= b THEN a ELSE b

\* the keys of the elements pass p excluded, in the order it met them
ExcludedKeys(p) ==
    LET k == SelectSeq(Kept(p), LAMBDA e : e.key \notin Range(output[p]))
    IN  [i \in DOMAIN k |-> k[i].key]

\* C23: both sequences are consumed in order without read-ahead. Nothing
\* is pulled from the general iterator before the pass starts; while the
\* k-th element is in hand (processed, or yielded and not yet resumed)
\* exactly k elements have been pulled; the number of values pulled from
\* the exclude iterator is min(its length + 1, matches so far + 1), the one
\* pulled last being the pending value; the matched exclude values are the
\* first ones of the exclude sequence, each matched once.
C23_NoReadAhead ==
    /\ pc[1] \in {"none", "start"} => PulledPrimary = 0
    /\ PulledPrimary = taken[1]
    /\ taken[1] > 0 => ctx[1].value = primary[PulledPrimary]
    /\ pc[1] = "yielded" =>
           output[1][Len(output[1])] = primary[PulledPrimary].key
    /\ PulledExclude = Min(Len(excluding) + 1, ExcludedCount(1) + 1)
    /\ ExcludedCount(1) <= Len(excluding)
    /\ ExcludedKeys(1) = SubSeq(excluding, 1, ExcludedCount(1))
    /\ manager._exclude_checker._value =
           IF ExcludedCount(1) < Len(excluding)
           THEN PyInt(excluding[ExcludedCount(1) + 1])
           ELSE None

\* C23 witness: job 30 was excluded and job 29 is being yielded: two jobs
\* and both exclude values have been pulled, 28 is pending
C23_Witness ==
    /\ pc[1] = "yielded"
    /\ excluding = <<30, 28>>
    /\ output[1] = <<29>>
    /\ Len(manager._general_iterator) = Len(primary) - 2
    /\ manager._exclude_checker._iterator = <<>>
    /\ ~manager._exclude_checker._is_completed
    /\ manager._exclude_checker._value = PyInt(28)

\* <<1, ..., n>>
UpTo(n) == [i \in 1..n |-> i]

\* the first case processor that returns True for the element, or 0
FirstTrue(e) ==
    IF IsDropped(e)
    THEN CHOOSE i \in DOMAIN e.cases :
             e.cases[i] /\ \A j \in 1..(i - 1) : ~e.cases[j]
    ELSE 0

\* C25: for the element in hand, the case processors were called in their
\* declared order; if some case processor returns True for it, the calls
\* end with the first such processor, no later one is called and neither
\* is the exclusion test; the exclusion test is called, after all the case
\* processors, only when every one of them returned False.
C25_CaseProcessorsShortCircuit ==
    taken[1] > 0 =>
        LET e == ctx[1].value
            n == manager._case_processors
        IN  IF IsDropped(e)
            THEN invoked[1] = UpTo(FirstTrue(e))
            ELSE invoked[1] = UpTo(n) \o <<0>>

\* C25 witness: job 29, for which both case processors return True, is
\* dropped after the first one was called
C25_Witness ==
    /\ taken[1] = 2
    /\ ctx[1].value.key = 29
    /\ ctx[1].value.cases = <<TRUE, TRUE>>
    /\ invoked[1] = <<1>>

\* the exclude keys of the elements of the general iterator that no case
\* processor drops
NonDroppedKeys ==
    {KeyValue(primary[i].key) :
        i \in {j \in DOMAIN primary : ~IsDropped(primary[j])}}

\* the cursor's pending value is the exclude key of no non-dropped element
StuckCursor ==
    /\ ~manager._exclude_checker._is_completed
    /\ manager._exclude_checker._value \notin NonDroppedKeys

\* C26: while the cursor's pending exclude key is the key of no
\* non-dropped element of the general iterator, no step moves the cursor,
\* every non-dropped element that is pulled is yielded, the two exclude
\* counters do not move and neither of them reports reached.
C26_StuckCursor ==
    [][StuckCursor =>
          /\ manager'._exclude_checker = manager._exclude_checker
          /\ (taken'[1] = taken[1] + 1 /\ ~IsDropped(primary[taken'[1]]))
                 => /\ output'[1] =
                          Append(output[1], primary[taken'[1]].key)
                    /\ pc'[1] = "yielded"
          /\ manager'._exclude_matches_counter._count <=
                 manager._exclude_matches_counter._count
          /\ manager'._total_excluded_counter._count =
                 manager._total_excluded_counter._count
          /\ taken'[1] = taken[1] + 1 =>
                 reached'[1] \cap {"exclude_matches", "total_excluded"} = {}
      ]_vars

\* C26 witness: the exclude iterator held 30, 28 and job 30 is dropped by
\* a case processor: the cursor stayed at 30 and job 28, although its key
\* is in the exclude sequence, was yielded like every other job but 30
C26_Witness ==
    /\ StuckCursor
    /\ excluding = <<30, 28>>
    /\ manager._exclude_checker._value = PyInt(30)
    /\ IsDropped(primary[1])
    /\ pc[1] = "done"
    /\ output[1] = <<29, 28, 27, 26, 25>>
    /\ ThresholdBool(manager._exclude_matches_counter._threshold)
    /\ manager._exclude_matches_counter._count = 0

\* the counters in the order in which the loop body evaluates them
EvaluationOrder ==
    <<"exclude_matches", "total_excluded", "total_returned",
      "total_iterations">>

\* the messages of the counters that reported reached on the element pass
\* p has in hand, in evaluation order
ReachedMessages(p) ==
    LET names == SelectSeq(EvaluationOrder, LAMBDA n : n \in reached[p])
    IN  [i \in DOMAIN names |-> MsgOf(names[i])]

\* C27: the close reasons of the context in hand are the messages of the
\* counters that reported reached on its element, in evaluation order
\* (exclude matches, then total excluded, or returned values; then
\* iterations); when the pass stops on counters, before_finish has been
\* called once, with that context, and the close reason it reads is the
\* last of these messages: the iterations message whenever the iterations
\* counter is among them.
C27_CloseReasonsInOrder ==
    taken[1] > 0 =>
        /\ ctx[1].close_reason = ReachedMessages(1)
        /\ ~(/\ reached[1] \cap {"exclude_matches", "total_excluded"} # {}
             /\ "total_returned" \in reached[1])
        /\ Len(finished[1]) <= 1
        /\ (pc[1] = "done" /\ reached[1] # {}) =>
               /\ finished[1] = <<ctx[1]>>
               /\ ContextCloseReason(finished[1][1]).some
               /\ ContextCloseReason(finished[1][1]).msg =
                      ReachedMessages(1)[Len(ReachedMessages(1))]
               /\ "total_iterations" \in reached[1] =>
                      ContextCloseReason(finished[1][1]).msg = MsgIterations
        /\ (pc[1] = "done" /\ reached[1] = {}) => finished[1] = <<>>

\* C27 witness: the first job is excluded and the consecutive, the
\* total-excluded and the iterations counter all report reached on it
C27_Witness ==
    /\ pc[1] = "done"
    /\ taken[1] = 1
    /\ reached[1] = {"exclude_matches", "total_excluded", "total_iterations"}
    /\ Len(finished[1]) = 1
    /\ finished[1][1].close_reason =
           <<MsgExcludeMatches, MsgTotalExcluded, MsgIterations>>

\* ---- Context with update (ContextUpdateSpec) ----

\* C24: no set_close_reason, context[key] = value or update call, whether
\* it succeeds or raises, changes what context.value and
\* context.exclude_value return: they stay the constructor's arguments.
C24_ValueFixed ==
    [][/\ GetItem(context', fields', "value") =
              GetItem(context, fields, "value")
       /\ GetItem(context', fields', "exclude_value") =
              GetItem(context, fields, "exclude_value")
       /\ ~GetItem(context', fields', "value").raised
       /\ ~GetItem(context', fields', "exclude_value").raised]_vars

\* C24 witness: a Context built with value 1 and exclude key 2 after a
\* close reason was set, an auxiliary key was written and an update that
\* tried to write 2 under the key value raised
C24_Witness ==
    /\ unit = "context"
    /\ context.value = PyInt(1)
    /\ context.exclude_value = PyInt(2)
    /\ context.close_reason # <<>>
    /\ fields["note"] # Absent
    /\ setitem = [called |-> TRUE, key |-> "value", value |-> PyInt(2),
                  raised |-> TRUE]

\* ---- SHubFetcher (FetchSpec) ----

\* the exclude iterator process_settings built for the first spider
FirstExcludeList == ProcessSettings(fetcher.arguments.settings[1])

\* what the first pass left of the exclude iterator it was built with: the
\* values after those it matched and the one it held pending
LeftByFirstPass ==
    LET n == Min(Len(FirstExcludeList), ExcludedCount(1) + 1)
    IN  SubSeq(FirstExcludeList, n + 1, Len(FirstExcludeList))

CountsOwnPass(p) ==
    /\ manager._total_returned_counter._is_enabled =>
           manager._total_returned_counter._count = Len(output[p])
    /\ manager._total_excluded_counter._is_enabled =>
           manager._total_excluded_counter._count = ExcludedCount(p)
    /\ manager._exclude_matches_counter._is_enabled =>
           manager._exclude_matches_counter._count = Streak(p)
    /\ (manager._total_iterations_counter._is_enabled
        /\ pc[p] \in {"loop", "done"}) =>
           manager._total_iterations_counter._count =
               Len(output[p]) + ExcludedCount(p)

C30_ConstructorValidation ==
    LET a == fetcher.arguments
        early == \/ Threshold(a.maximum_fetched_jobs).raised
                 \/ Threshold(a.maximum_excluded_matches).raised
        late == \/ Threshold(a.maximum_returned_jobs).raised
                \/ Threshold(a.maximum_total_excluded).raised
    IN  fetcher.phase \in {"raised", "ready"}
        => /\ fetcher.phase = "raised" <=> early
           /\ fetcher.phase = "raised" =>
                  /\ fetcher.settings = <<>>
                  /\ \A p \in Passes : pc[p] = "none"
           /\ fetcher.phase = "ready" =>
                  Len(fetcher.settings) = Len(a.settings)
           /\ (fetcher.phase = "ready" /\ late) =>
                  \A p \in Passes :
                      /\ pc[p] \in {"none", "start", "raised"}
                      /\ taken[p] = 0
                      /\ output[p] = <<>>
           /\ (fetcher.phase = "ready" /\ ~late) =>
                  \A p \in Passes : pc[p] # "raised"

\* C30 witness: maximum_fetched_jobs = 2 and maximum_returned_jobs = -1:
\* the constructor accepted them and processed the settings, the first
\* pull of the first spider's pass raised
C30_Witness ==
    /\ fetcher.phase = "ready"
    /\ fetcher.maximum_fetched_jobs = PyInt(2)
    /\ fetcher.maximum_returned_jobs = PyInt(-1)
    /\ fetcher.settings # <<>>
    /\ pc[1] = "raised"
    /\ taken[1] = 0

====
